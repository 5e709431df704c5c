\* One call against two edits of tier, overrides, plans and flag.
SPECIFICATION Spec
CONSTANTS
    Feature <- ThreeFeatures
    Unknown <- Junk
    TierFeatures <- Defaults
    Request = {r1}
    Gated = "account_aggregation"
    MaxEdits = 2
INVARIANTS
    TypeOK
    QuietAnswerIsExact
    StandingOverrideDecides
    GateFollowsOverride
