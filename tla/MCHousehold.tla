----------------------------- MODULE MCHousehold -----------------------------
(***************************************************************************)
(* Small instance of Household: two accounts out of a liability of class   *)
(* cash, a bank account without a class, cash and equity, one of them in a *)
(* second currency; one profile update that sends the money fields and one *)
(* that sends only the risk; a goal on track, one behind, one without a    *)
(* target; one change while reports are drawn.  Retirement rates are 0%,   *)
(* so that the years stay exact.                                           *)
(***************************************************************************)
EXTENDS Household

Row(type, class, currency, balance, isLiability) ==
    [type |-> type, assetClass |-> class, currency |-> currency,
     balance |-> balance, isLiability |-> isLiability]

MCAccountRow == {Row("bank", "cash", "INR", 3, FALSE),
                 Row("investment", "equity", "USD", 9, FALSE),
                 Row("credit_card", "cash", "INR", 3, TRUE)}

MCBalances == {12}

MCProfileDto == {[monthlyExpenses |-> 2, annualIncome |-> 6, hasHealthInsurance |-> TRUE,
                  age |-> 58, existingLifeCover |-> 30],
                 [riskTolerance |-> "aggressive", age |-> 200]}

MCGoalRow == {[target |-> 20, current |-> 6, months |-> 1, return |-> 0],
              [target |-> 20, current |-> 9, months |-> 1, return |-> 1200]}

MCTxRow == {[type |-> "expense", amount |-> 3, category |-> "rent"]}

MCRetirementDefaults ==
    [retirementAge |-> 60, yearsInRetirement |-> 2, inflation |-> 0,
     preReturn |-> 0, postReturn |-> 0, tax |-> 125]

\* Every unordered pair of accounts.
MCStartAccounts ==
    LET Order == <<NoRow, Row("bank", "cash", "INR", 3, FALSE),
                   Row("investment", "equity", "USD", 9, FALSE),
                   Row("credit_card", "cash", "INR", 3, TRUE)>>
        last  == CHOOSE i \in AccountId : TRUE
    IN  {[i \in AccountId |-> IF i = last THEN Order[n] ELSE Order[m]] :
            <<m, n>> \in {p \in (1..4) \X (1..4) : p[1] <= p[2]}}

\* Every pair of accounts, with and without a profile, and nothing else, or one
\* row of everything else.
MCStart ==
    {[profile |-> p, accounts |-> a,
      debts |-> [i \in DebtId |-> IF g = NoRow THEN NoRow ELSE 1],
      goals |-> [i \in GoalId |-> g], txs |-> [i \in TxId |-> NoRow]] :
        p \in {NoRow, Over(CHOOSE d \in MCProfileDto : "annualIncome" \in DOMAIN d, NoProfile)},
        a \in MCStartAccounts,
        g \in {NoRow} \cup MCGoalRow}
==============================================================================
