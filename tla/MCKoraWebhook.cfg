\* Two requests at a time, one pay-in with a refund, two payouts with two references.
SPECIFICATION Spec
CONSTANTS
    Payins = {c1}
    Payouts = {p1, p2}
    WithAccount = {c1, p1, p2}
    RefundKeys = {k1}
    Spellings = {"own", "psp"}
    Events = {e1, e2}
    Handlers = {h1, h2}
    FirstDelay = 1
    Expiry = 4
    None = None
SYMMETRY Symmetry
INVARIANTS AppliedOnce DebitsBacked SettledIsDebited
PROPERTIES StatusHasCause AtomicInbox
