\* A late pending event after the task was completed.
SPECIFICATION FairRecon
CONSTANTS
    Payins = {c1}
    Payouts = {}
    WithAccount = {c1}
    RefundKeys = {}
    Spellings = {"own"}
    Events = {e1, e2}
    Handlers = {h1}
    FirstDelay = 1
    Expiry = 4
    None = None
    Workers = {w1}
    Lease = 3
    MaxBackoff = 2
    MaxAttempts = 2
PROPERTY ProcessingIsReconciled
