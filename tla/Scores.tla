-------------------------------- MODULE Scores --------------------------------
(***************************************************************************)
(* packages/core/src/scoring: the wealth health report, the action list    *)
(* drawn from it, and the early warning report.  Inputs are the records    *)
(* ScoreInput and EarlyWarningInput with the suffix "Minor" left out.      *)
(***************************************************************************)
EXTENDS BalanceSheet

Band == {"green", "yellow", "red"}
Rank(band) == CASE band = "green" -> 0 [] band = "yellow" -> 1 [] band = "red" -> 2

BandFor(score) ==
    CASE score >= 70 -> "green"
      [] score >= 40 /\ score < 70 -> "yellow"
      [] score < 40 -> "red"
------------------------------------------------------------------------------
\* computeWealthHealth, one sub-score per key; a ratio over nothing counts as 0.
\* FAULT: it takes a year of expenses to make 100.
EmergencyYear(s) ==
    IF s.monthlyExpenses > 0
    THEN Clamp(100 * s.emergencyFund, 12 * s.monthlyExpenses) ELSE 0

EmergencyScore(s) ==
    IF s.monthlyExpenses > 0
    THEN Clamp(100 * s.emergencyFund, 6 * s.monthlyExpenses) ELSE 0

ProtectionScore(s) ==
    LET bonus == IF s.hasHealthInsurance THEN 20 ELSE 0
    IN  IF s.annualIncome > 0
        THEN Clamp(8 * s.existingLifeCover + bonus * s.annualIncome, s.annualIncome)
        ELSE bonus

InvestmentScore(s) ==
    IF s.annualIncome > 0
    THEN Clamp(100 * s.investmentAssets, 3 * s.annualIncome) ELSE 0

RetirementScore(s) ==
    IF s.retirementRequiredCorpus > 0
    THEN Clamp(100 * (s.retirementRequiredCorpus - s.retirementCorpusGap),
               s.retirementRequiredCorpus)
    ELSE 100

\* FAULT: more assets make the debt weigh more.
DebtScoreInverted(s) ==
    IF s.totalLiabilities > 0
    THEN Clamp(100 * (s.totalLiabilities - Smaller(s.totalLiabilities, s.totalAssets)),
               s.totalLiabilities)
    ELSE 100

DebtScore(s) ==
    IF s.totalAssets > 0
    THEN Clamp(100 * (s.totalAssets - Smaller(s.totalAssets, s.totalLiabilities)),
               s.totalAssets)
    ELSE 100

\* The sub-scores in the order of the report, with their weights in percent.
ScoreKeys == <<"emergency_fund", "protection", "investments", "retirement", "debt">>
ScoreKey  == ToSet(ScoreKeys)
Weight    == [emergency_fund |-> 20, protection |-> 20, investments |-> 20,
              retirement |-> 25, debt |-> 15]

ComputeWealthHealth(s) ==
    LET score   == [emergency_fund |-> EmergencyScore(s), protection |-> ProtectionScore(s),
                    investments |-> InvestmentScore(s), retirement |-> RetirementScore(s),
                    debt |-> DebtScore(s)]
        overall == Clamp(SumOver([k \in ScoreKey |-> Weight[k] * score[k]], ScoreKey), 100)
    IN  [score |-> score, overall |-> overall, band |-> BandFor(overall)]

\* topWealthActions: the keys below green, the weakest first and equal ones in
\* the order of the report, ten at most.  The order is a number per place.
TopWealthActions(report) ==
    LET weak      == {n \in DOMAIN ScoreKeys : BandFor(report.score[ScoreKeys[n]]) # "green"}
        urgent(n) == Len(ScoreKeys) * report.score[ScoreKeys[n]] + n
        place(i)  == CHOOSE n \in weak : urgent(n) = Nth({urgent(m) : m \in weak}, i)
    IN  [i \in 1..Smaller(10, Cardinality(weak)) |-> ScoreKeys[place(i)]]
------------------------------------------------------------------------------
\* computeEarlyWarning, one status per signal.  Shares are tenths of a percent.
Light(red, yellow) == IF red THEN "red" ELSE IF yellow THEN "yellow" ELSE "green"

Concentration(e) ==
    LET top == IF DOMAIN e.allocationPct = {} THEN 0
               ELSE Round(Max({e.allocationPct[c] : c \in DOMAIN e.allocationPct}), 10)
    IN  Light(top >= 70, top >= 50)

\* Months of expenses covered: red below three, yellow below six.
Cover(fund, expenses) ==
    Light(expenses <= 0 \/ fund < 3 * expenses, expenses <= 0 \/ fund < 6 * expenses)

DebtBurden(e) ==
    LET Burden(debtNum, debtDen, emiNum, emiDen) ==
            \/ e.totalAssets > 0 /\ debtDen * e.totalLiabilities >= debtNum * e.totalAssets
            \/ e.annualIncome > 0
               /\ emiDen * 12 * e.monthlyDebtPayment >= emiNum * e.annualIncome
    IN  Light(Burden(1, 2, 4, 10), Burden(7, 20, 3, 10))

InsuranceGap(e) ==
    LET needed == e.dependents > 0 \/ e.annualIncome > 0
    IN  Light(needed /\ ~e.hasTermCover /\ ~e.hasHealthInsurance,
              needed /\ (~e.hasTermCover \/ ~e.hasHealthInsurance))

\* goalSlippage: a set of shares [n, d] of the target that is not funded.
GoalSlippage(e) ==
    Light(\E g \in e.goalSlippage : 10 * g.n >= 3 * g.d,
          \E g \in e.goalSlippage : 20 * g.n >= 3 * g.d)

ComputeEarlyWarning(e) ==
    LET signal == [concentration |-> Concentration(e),
                   liquidity |-> Cover(e.liquidAssets, e.monthlyExpenses),
                   emergency_fund |-> Cover(e.emergencyFund, e.monthlyExpenses),
                   debt |-> DebtBurden(e), insurance |-> InsuranceGap(e),
                   goal_slippage |-> GoalSlippage(e)]
        Lit(band) == {k \in DOMAIN signal : signal[k] = band}
    IN  [signal |-> signal,
         overall |-> Light(Lit("red") # {}, Lit("yellow") # {}),
         redCount |-> Cardinality(Lit("red")), yellowCount |-> Cardinality(Lit("yellow"))]
==============================================================================
