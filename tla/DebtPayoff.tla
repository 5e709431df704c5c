----------------------------- MODULE DebtPayoff -----------------------------
(***************************************************************************)
(* packages/core/src/finance/debt.ts: compareDebtStrategies runs the month *)
(* by month simulation with the snowball order, then with the avalanche    *)
(* order, and reports the interest saved.  One step is one month.          *)
(***************************************************************************)
EXTENDS Money, FiniteSets, Sequences

CONSTANTS Count,     \* number of debts
          Principal, \* values of principalMinor
          Rate,      \* values of annualInterestRatePct
          Minimum,   \* values of minimumPaymentMinor
          Extra,     \* values of extraMonthlyMinor
          MaxMonths  \* MAX_MONTHS, 1200 in the code

\* What the simulation is meant for: nothing in the code keeps amounts from being
\* negative (CreateDebtDto asks for integers only), and no rate from being a fraction.
ASSUME DebtAssumption ==
    /\ Count \in Nat \ {0} /\ MaxMonths \in Nat \ {0}
    /\ Principal \subseteq Nat /\ Rate \subseteq Nat
    /\ Minimum \subseteq Nat /\ Extra \subseteq Nat

VARIABLES debts,   \* the input, in array order
          extra,   \* extraMonthlyMinor
          phase,   \* the simulation that runs, or the end
          run,     \* per strategy: balances, month, totalInterest, payoffOrder
          saved,   \* interestSaved
          paid     \* HISTORY: what each simulation paid so far

vars == <<debts, extra, phase, run, saved, paid>>
------------------------------------------------------------------------------
Strategy == {"snowball", "avalanche"}
Debt     == 1..Count
DebtRow  == [principal : Principal, rate : Rate, minimum : Minimum]
Fresh    == [balance |-> [i \in Debt |-> debts[i].principal], month |-> 0,
             interest |-> 0, payoffOrder |-> <<>>]

Total(f)  == SumOver(f, Debt)
Open(f)   == {i \in Debt : f[i] > 0}
Recorded(s) == {run[s].payoffOrder[n].debt : n \in DOMAIN run[s].payoffOrder}

Init ==
    /\ debts \in [Debt -> DebtRow]
    /\ extra \in Extra
    /\ phase = "snowball"
    /\ run = [s \in Strategy |-> Fresh]
    /\ saved = 0
    /\ paid = [s \in Strategy |-> 0]
------------------------------------------------------------------------------
\* Math.round(balance * rate / 100 / 12): half a unit rounds up.
MonthlyInterest(balance, rate) == Round(balance * rate, 1200)

\* 1. Interest on every open debt.
Accrue(b) == [i \in Debt |-> IF b[i] > 0 THEN MonthlyInterest(b[i], debts[i].rate) ELSE 0]

\* 2. The minimum on every open debt, and never more than is owed.
PayMinimum(b) == [i \in Debt |-> b[i] - Smaller(debts[i].minimum, b[i])]

\* order(): the stable sort of the open debts, as a relation.
Before(s, b, i, j) ==
    IF s = "snowball" THEN b[i] < b[j] \/ (b[i] = b[j] /\ i < j)
    ELSE debts[i].rate > debts[j].rate \/ (debts[i].rate = debts[j].rate /\ i < j)

\* FAULT: the extra goes to the last debt of the order first.
PayExtraLast(s, b) ==
    [i \in Debt |->
        LET first == {j \in Open(b) : Before(s, b, i, j)}
            pool  == extra - SumOver(b, first)
        IN  b[i] - Larger(0, Smaller(pool, b[i]))]

\* FAULT: the extra goes to the first debt only, and what is over is lost.
PayExtraFirst(s, b) ==
    [i \in Debt |->
        IF \E j \in Open(b) : Before(s, b, j, i) THEN b[i]
        ELSE b[i] - Smaller(extra, b[i])]

\* 3. The extra pool, debt by debt in that order, as long as it lasts.
PayExtra(s, b) ==
    [i \in Debt |->
        LET first == {j \in Open(b) : Before(s, b, j, i)}
            pool  == extra - SumOver(b, first)
        IN  b[i] - Larger(0, Smaller(pool, b[i]))]

\* FAULT: a cleared debt is recorded again every month.
RecordAgain(s, b, month) ==
    LET cleared == {i \in Debt : b[i] = 0}
    IN  [n \in 1..Cardinality(cleared) |->
            [debt |-> Nth(cleared, n), month |-> month]]

\* 4. Debts cleared this month, in array order.
Record(s, b, month) ==
    LET cleared == {i \in Debt : b[i] = 0} \ Recorded(s)
    IN  [n \in 1..Cardinality(cleared) |->
            [debt |-> Nth(cleared, n), month |-> month]]

Running(s) == Open(run[s].balance) # {} /\ run[s].month < MaxMonths

\* FAULT: the interest of a debt that the month clears is not counted.
MonthUncounted(s) ==
    LET interest == Accrue(run[s].balance)
        owed     == [i \in Debt |-> run[s].balance[i] + interest[i]]
        left     == PayExtra(s, PayMinimum(owed))
        month    == run[s].month + 1
    IN  /\ phase = s /\ Running(s)
        /\ run' = [run EXCEPT ![s] =
               [balance |-> left, month |-> month,
                interest |-> run[s].interest
                    + SumOver(interest, Open(left)),
                payoffOrder |-> run[s].payoffOrder \o Record(s, left, month)]]
        /\ paid' = [paid EXCEPT ![s] = @ + Total(owed) - Total(left)]
        /\ UNCHANGED <<debts, extra, phase, saved>>

\* One turn of the while loop of simulateDebtPayoff.
Month(s) ==
    LET interest == Accrue(run[s].balance)
        owed     == [i \in Debt |-> run[s].balance[i] + interest[i]]
        left     == PayExtra(s, PayMinimum(owed))
        month    == run[s].month + 1
    IN  /\ phase = s /\ Running(s)
        /\ run' = [run EXCEPT ![s] =
               [balance |-> left, month |-> month,
                interest |-> run[s].interest + Total(interest),
                payoffOrder |-> run[s].payoffOrder \o Record(s, left, month)]]
        /\ paid' = [paid EXCEPT ![s] = @ + Total(owed) - Total(left)]
        /\ UNCHANGED <<debts, extra, phase, saved>>

\* FAULT: the loop ends only when nothing is owed any more.
FinishCleared(s) ==
    /\ phase = s /\ Open(run[s].balance) = {}
    /\ phase' = IF s = "snowball" THEN "avalanche" ELSE "compare"
    /\ UNCHANGED <<debts, extra, run, saved, paid>>

\* The loop ends: nothing is owed any more, or MAX_MONTHS is reached.
Finish(s) ==
    /\ phase = s /\ ~Running(s)
    /\ phase' = IF s = "snowball" THEN "avalanche" ELSE "compare"
    /\ UNCHANGED <<debts, extra, run, saved, paid>>

\* interestSaved, clamped at zero.
Compare ==
    /\ phase = "compare"
    /\ saved' = Larger(0, run["snowball"].interest - run["avalanche"].interest)
    /\ phase' = "done"
    /\ UNCHANGED <<debts, extra, run, paid>>

Next == Compare \/ \E s \in Strategy : Month(s) \/ Finish(s)

\* The call is one synchronous loop: it runs until it returns.
Spec == Init /\ [][Next]_vars /\ WF_vars(Next)
------------------------------------------------------------------------------
\* Nothing is lost and nothing invented: principal and interest are paid or owed.
Conservation ==
    \A s \in Strategy :
        Total([i \in Debt |-> debts[i].principal]) + run[s].interest
            = paid[s] + Total(run[s].balance)

\* payoffOrder lists exactly the debts at zero, each once, months ascending.
PayoffOrderIsExact ==
    \A s \in Strategy : run[s].month > 0 =>
        LET order == run[s].payoffOrder IN
        /\ Recorded(s) = Debt \ Open(run[s].balance)
        /\ Len(order) = Cardinality(Recorded(s))
        /\ \A n \in 1..(Len(order) - 1) : order[n].month <= order[n + 1].month

\* As long as something is owed the budget is spent in full: every minimum of a
\* debt that stays open, and all of the extra.
BudgetIsSpent ==
    [][\A s \in Strategy :
         LET open == Open(run'[s].balance) IN
         run'[s].month > run[s].month /\ open # {} =>
             paid'[s] - paid[s] >=
                 extra + SumOver([i \in Debt |-> debts[i].minimum], open)]_vars

\* Avalanche pays a debt more than its minimum only in a month that leaves
\* nothing owed at a higher rate.
AvalancheTargetsRate ==
    [][LET s == "avalanche" IN
       run'[s].month > run[s].month =>
         \A i, j \in Debt :
             /\ run'[s].balance[i] + debts[i].minimum
                  < run[s].balance[i] + Accrue(run[s].balance)[i]
             /\ debts[j].rate > debts[i].rate
             => run'[s].balance[j] = 0]_vars

\* However little is paid, both simulations end.
Terminates == <>(phase = "done")

\* finance.test.ts:51, "avalanche never costs more interest than snowball": when
\* both strategies clear everything, up to the rounding of every debt and month.
AvalancheNeverCostsMore ==
    /\ phase = "done"
    /\ \A s \in Strategy : Open(run[s].balance) = {}
    => run["avalanche"].interest
           <= run["snowball"].interest + Count * run["avalanche"].month
=============================================================================
