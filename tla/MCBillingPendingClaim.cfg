\* billing.service.ts:66-68 against TierFor.
SPECIFICATION Spec
CONSTANTS
    User = {u1}
    Order = {o1}
    Tier <- TwoTiers
    Nobody = Nobody
    EventKind <- TwoKinds
    AuditKept <- Activation
    Request = {r1}
    NoOrder = NoOrder
    NoSub = NoSub
    RazorpayLive = TRUE
    Prices <- Charged
    Period = 1
    MaxTime = 0
    MaxCrashes = 0
INVARIANTS
    PendingGivesNoPaidTier
CHECK_DEADLOCK FALSE
