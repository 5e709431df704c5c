\* One order replaced by another, a handler that dies, and the clock.
SPECIFICATION FairSpec
CONSTANTS
    User = {u1}
    Order = {o1, o2}
    Tier <- TwoTiers
    Nobody = Nobody
    EventKind <- PaidOnly
    AuditKept <- Activation
    Request = {r1}
    NoOrder = NoOrder
    NoSub = NoSub
    RazorpayLive = TRUE
    Prices <- ZeroOrPaid
    Period = 1
    MaxTime = 1
    MaxCrashes = 1
INVARIANTS
    PendingMatchesOrder
    AckedIsSettled
PROPERTIES
    PaymentTakesEffect
    EveryEventAcked
CHECK_DEADLOCK FALSE
