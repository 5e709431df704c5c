\* Two users, two concurrent requests, an order that may fail or be settled.
SPECIFICATION Spec
CONSTANTS
    User = {u1, u2}
    Order = {o1}
    Tier <- TwoTiers
    Nobody = Nobody
    EventKind <- PerPayment
    AuditKept <- Activation
    Request = {r1, r2}
    NoOrder = NoOrder
    NoSub = NoSub
    RazorpayLive = TRUE
    Prices <- Charged
    Period = 1
    MaxTime = 0
    MaxCrashes = 0
SYMMETRY UserSymmetry
INVARIANTS
    OrderOwnership
    ErasedLeavesNothing
    PastDueHasFailure
    PaidPlanIsEarned
    AuditedActivationWasPaid
PROPERTIES
    KeepsContract
CHECK_DEADLOCK FALSE
