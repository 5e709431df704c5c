\* finance.test.ts:51 on two loans of 300 and 500, with small and large minimums.
SPECIFICATION Spec
CONSTANTS
    Count = 2
    Principal = {30000, 50000}
    Rate = {24, 36}
    Minimum = {500, 5000}
    Extra = {2000}
    MaxMonths = 100
INVARIANTS
    AvalancheNeverCostsMore
CHECK_DEADLOCK FALSE
