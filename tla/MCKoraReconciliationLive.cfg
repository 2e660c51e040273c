\* Prompt workers that crash and come back, one event: nothing schedules the task again.
SPECIFICATION FairRecon
CONSTANTS
    Payins = {c1}
    Payouts = {}
    WithAccount = {c1}
    RefundKeys = {}
    Spellings = {"own"}
    Events = {e1}
    Handlers = {h1}
    FirstDelay = 1
    Expiry = 4
    None = None
    Workers = {w1, w2}
    Lease = 3
    MaxBackoff = 2
    MaxAttempts = 2
INVARIANTS SingleOwner ScheduledIsDue
PROPERTY TaskEnds
