\* A failed event is delivered again.
SPECIFICATION Spec
CONSTANTS
    Payins = {c1}
    Payouts = {p1}
    WithAccount = {c1, p1}
    RefundKeys = {k1}
    Spellings = {"own"}
    Events = {e1}
    Handlers = {h1}
    FirstDelay = 1
    Expiry = 4
    None = None
INVARIANT AckedIsProcessed
