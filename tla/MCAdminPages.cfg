SPECIFICATION Spec
CONSTANTS
    None = None
    NoRow = NoRow
    me = me
    user = user
    plan = plan
    flag = flag
    f1 = f1
    f2 = f2
    UserId = {me, user}
    Me = me
    ListedFirst <- MCListedFirst
    Feature = {f1, f2}
    PlanKey = {plan}
    FlagKey = {flag}
    Start <- MCStart
    RoleChoice = {"SUPPORT"}
    TierChoice = {"free", "premium"}
    Payload = {"p"}
    Price = {1, 2}
    Matches <- MCMatches
    ActionFilter = {"", "status"}
    TakeUsers = 1
    TakeAudit = 1
    MaxCalls = 2
    MaxWrites = 1
INVARIANTS
    QuietPageIsTrue
    TrailIsComplete
PROPERTY
    FullAdminIsNotRefused
