SPECIFICATION FairSpec
CONSTANTS
    NoRow = NoRow
    None = None
    AccountId = {a1, a2}
    DebtId = {d1}
    GoalId = {g1}
    TxId = {t1}
    AccountRow <- MCAccountRow
    Payment = {1}
    GoalRow <- MCGoalRow
    TxRow <- MCTxRow
    Start <- MCStart
    Balances <- MCBalances
    ProfileDto <- MCProfileDto
    RetirementDefaults <- MCRetirementDefaults
    DefaultAge = 35
    HasClient = {TRUE, FALSE}
    MaxEdits = 1
    MaxSnaps = 1
INVARIANTS
    FiguresAgree
    WarningsAgree
    TotalsNest
    DepositNeverHurts
PROPERTY
    CoachAnswers
