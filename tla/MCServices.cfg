\* One component at a time; the webhook endpoint as in FairSpec, one request at a
\* time and no crash: two events, two refunds of one pay-in, one payout.
SPECIFICATION ServicesSpec
CONSTANTS
    Payins = {c1}
    Payouts = {p1}
    WithAccount = {c1, p1}
    RefundKeys = {k1, k2}
    Spellings = {"own"}
    Events = {e1, e2}
    Handlers = {h1}
    FirstDelay = 1
    Expiry = 4
    None = None
    Consumers = {w1, w2}
    BatchSize = 2
    MaxEntries = 3
    MaxFaults = 2
    NoOne = NoOne
    Callers = {r1, r2, r3}
    PassLimit = 1
    PassWindow = 2
    MaxClock = 3
    Rotators = {o1, o2}
    Validity = 2
    MaxKeys = 4
    Calls = {b1, b2}
    Timeout = 1
    TokenLife = 4
    Margin = 2
    Ttl = 2
    Users = {u1, u2}
    Brokers = {a1, a2}
    Requests = {q1, q2, q3}
    Nothing = Nothing
    Moments = {1, 2}
    Ids = {1, 2, 3}
    PageSize = 2
    Failures = {f1, f2, f3}
    Kinds = {"charge", "payout"}
    Threshold = 2
    Recent = 1
    PollAttempts = 3
    References = 3
    Amounts = {1, 7, 10, 33, 50, 2499, 2500, 2533, 250000, 250010, 10000000, 10000001}
    PartFees = {0, 4, 5, 15, 50000004, 100000000}
    MinAmount = 10000000
    Percent = 2
    MinFee = 50
    MaxFee = 5000
    Volumes = {0, 1, 3, 100}
    Sizes = {1, 33, 2499, 2501, 2533, 250024, 250026}
    NoPsp = NoPsp
    Visits = {v1, v2}
    AccessLife = 2
    RefreshLife = 5
    Lag = 1
INVARIANT DebitOnce
INVARIANT ServicesTypeOK
INVARIANT Accounted
INVARIANT LimitHolds
INVARIANT KeysRotated
INVARIANT CallsAreTimely
INVARIANT OneAccountEach
INVARIANT WalkIsComplete
INVARIANT AlertRaised
INVARIANT RefundOnlyOfPaid
INVARIANT QuoteAddsUp
INVARIANT RoutedIsUsable
INVARIANT AccessEnds
PROPERTY ReceivedIsDecided
PROPERTY EventIsTaken
CHECK_DEADLOCK FALSE
