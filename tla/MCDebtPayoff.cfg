\* Every pair of debts of the bounds; the call returns, and then nothing moves.
SPECIFICATION Spec
CONSTANTS
    Count = 2
    Principal = {0, 100, 250}
    Rate = {0, 12, 36}
    Minimum = {0, 40}
    Extra = {0, 30, 120}
    MaxMonths = 12
INVARIANTS
    Conservation
    PayoffOrderIsExact
PROPERTIES
    BudgetIsSpent
    AvalancheTargetsRate
    Terminates
CHECK_DEADLOCK FALSE
