--------------------------- MODULE HouseholdProofs ---------------------------
(***************************************************************************)
(* For every set of rows: a report speaks of the rows of one moment, the   *)
(* coach names the figures of the net-worth page, no money is counted      *)
(* twice, warnings and scores do not contradict each other, and money put  *)
(* aside never lowers a score.                                             *)
(***************************************************************************)
EXTENDS Household, MoneyProofs, SequenceTheorems

(* Scores *)

\* The coach never judges an emergency fund worse than the early warning does, of
\* whatever fund and expenses (bands of scores.ts against the months of
\* earlyWarning.ts).
THEOREM CoverAgrees ==
    ASSUME NEW fund \in Int, NEW expenses \in Int, NEW s,
           s.emergencyFund = fund, s.monthlyExpenses = expenses
    PROVE  Rank(BandFor(EmergencyScore(s))) <= Rank(Cover(fund, expenses))
<1>. DEFINE score == EmergencyScore(s)
<1>1. CASE expenses <= 0
    <2>1. Cover(fund, expenses) = "red" /\ score = 0
        BY <1>1 DEF Cover, Light, EmergencyScore
    <2>. QED
        BY <2>1 DEF BandFor, Rank
<1>2. CASE expenses > 0
    <2>1. score = Clamp(100 * fund, 6 * expenses) /\ score \in 0..100
        <3>1. 100 * fund \in Int /\ 6 * expenses \in Nat \ {0}
            BY <1>2
        <3>2. score = Clamp(100 * fund, 6 * expenses)
            BY <1>2 DEF EmergencyScore
        <3>. HIDE DEF score
        <3>. QED
            BY <3>1, <3>2, ScoresInRange
    <2>2. fund >= 6 * expenses => score >= 100
        <3>1. fund >= 6 * expenses => (6 * expenses) * 100 <= 100 * fund
            BY <1>2
        <3>. QED
            BY <1>2, <2>1, <3>1, ScoreAtLeast
    <2>3. fund >= 3 * expenses => score >= 50
        <3>1. fund >= 3 * expenses => (6 * expenses) * 50 <= 100 * fund
            BY <1>2
        <3>. QED
            BY <1>2, <2>1, <3>1, ScoreAtLeast
    <2>4. BandFor(score) \in Band
        BY <2>1 DEF BandFor, Band
    <2>5. CASE fund >= 6 * expenses
        <3>1. BandFor(score) = "green"
            BY <2>1, <2>2, <2>5 DEF BandFor
        <3>2. Cover(fund, expenses) = "green"
            BY <1>2, <2>5 DEF Cover, Light
        <3>. QED
            BY <3>1, <3>2 DEF Rank
    <2>6. CASE fund >= 3 * expenses /\ fund < 6 * expenses
        <3>1. BandFor(score) \in {"green", "yellow"}
            BY <2>1, <2>3, <2>6 DEF BandFor
        <3>2. Cover(fund, expenses) = "yellow"
            BY <1>2, <2>6 DEF Cover, Light
        <3>. QED
            BY <3>1, <3>2 DEF Rank
    <2>7. CASE fund < 3 * expenses
        <3>1. Cover(fund, expenses) = "red"
            BY <1>2, <2>7 DEF Cover, Light
        <3>. QED
            BY <2>4, <3>1 DEF Rank, Band
    <2>. QED
        BY <1>2, <2>5, <2>6, <2>7
<1>. QED
    BY <1>1, <1>2

\* Cash put aside raises the emergency fund and the assets by as much, and lowers
\* neither the emergency score nor the debt score of a household that owns
\* something (computeWealthHealth).
THEOREM DepositRaisesScores ==
    ASSUME NEW s, NEW t, NEW more \in Nat,
           s.monthlyExpenses \in Int, s.emergencyFund \in Int,
           s.totalAssets \in Nat \ {0}, s.totalLiabilities \in Int,
           t.monthlyExpenses = s.monthlyExpenses, t.totalLiabilities = s.totalLiabilities,
           t.emergencyFund = s.emergencyFund + more, t.totalAssets = s.totalAssets + more
    PROVE  EmergencyScore(s) <= EmergencyScore(t) /\ DebtScore(s) <= DebtScore(t)
<1>1. EmergencyScore(s) <= EmergencyScore(t)
    <2>1. CASE s.monthlyExpenses <= 0
        BY <2>1 DEF EmergencyScore
    <2>2. CASE s.monthlyExpenses > 0
        <3>. DEFINE d == 6 * s.monthlyExpenses
        <3>1. d \in Nat \ {0} /\ 100 * s.emergencyFund <= 100 * t.emergencyFund
              /\ 100 * s.emergencyFund \in Int /\ 100 * t.emergencyFund \in Int
            BY <2>2
        <3>2. (100 * s.emergencyFund) * d <= (100 * t.emergencyFund) * d
            <4>1. d * (100 * s.emergencyFund) <= d * (100 * t.emergencyFund)
                BY <3>1, Product
            <4>2. PICK a \in Int, b \in Int, c \in Int :
                      a = 100 * s.emergencyFund /\ b = 100 * t.emergencyFund /\ c = d
                BY <3>1
            <4>3. c * a = a * c /\ c * b = b * c
                OBVIOUS
            <4>. QED
                BY <4>1, <4>2, <4>3
        <3>3. Clamp(100 * s.emergencyFund, d) <= Clamp(100 * t.emergencyFund, d)
            BY <3>1, <3>2, ClampMonotone
        <3>. QED
            BY <2>2, <3>3 DEF EmergencyScore
    <2>. QED
        BY <2>1, <2>2
<1>2. DebtScore(s) <= DebtScore(t)
    <2>1. PICK a \in Nat \ {0}, l \in Int, b \in Nat \ {0} :
              /\ a = s.totalAssets /\ b = t.totalAssets /\ l = s.totalLiabilities /\ a <= b
        OBVIOUS
    <2>. DEFINE m == 100 * (a - Smaller(a, l))
                n == 100 * (b - Smaller(b, l))
    <2>2. DebtScore(s) = Clamp(m, a) /\ DebtScore(t) = Clamp(n, b)
        BY <2>1 DEF DebtScore
    <2>3. m \in Int /\ n \in Int
        BY <2>1 DEF Smaller
    <2>0. CASE l < 0
        <3>1. m = 100 * (a - l) /\ n = 100 * (b - l)
            BY <2>0, <2>1 DEF Smaller
        <3>2. a * 100 <= m /\ b * 100 <= n
            BY <2>0, <2>1, <3>1
        <3>. HIDE DEF m, n
        <3>3. Clamp(m, a) >= 100 /\ Clamp(n, b) >= 100
            <4>1. 100 \in 0..100
                OBVIOUS
            <4>. QED
                BY <2>3, <3>2, <4>1, ScoreAtLeast
        <3>4. Clamp(m, a) \in 0..100 /\ Clamp(n, b) \in 0..100
            BY <2>3, ScoresInRange
        <3>. QED
            BY <2>2, <3>3, <3>4
    <2>4. ASSUME l >= 0 PROVE m * b <= n * a
        <3>1. CASE a <= l
            <4>1. m = 0 /\ n >= 0
                BY <2>1, <3>1 DEF Smaller
            <4>2. a * 0 <= a * n
                BY <2>3, <4>1, Product
            <4>3. n * a = a * n /\ 0 * b = 0
                BY <2>3
            <4>. QED
                BY <4>1, <4>2, <4>3
        <3>2. CASE l < a
            <4>1. m = 100 * (a - l) /\ n = 100 * (b - l)
                BY <2>1, <3>2 DEF Smaller
            <4>2. l * a <= l * b
                BY <2>1, <2>4, Product
            <4>3. (100 * (a - l)) * b = 100 * (a * b) - 100 * (l * b)
                OBVIOUS
            <4>4. (100 * (b - l)) * a = 100 * (a * b) - 100 * (l * a)
                OBVIOUS
            <4>. QED
                BY <4>1, <4>2, <4>3, <4>4
        <3>. QED
            BY <3>1, <3>2
    <2>5. CASE l >= 0
        BY <2>1, <2>2, <2>3, <2>4, <2>5, ClampMonotone, SMTT(30)
    <2>. QED
        BY <2>0, <2>1, <2>5
<1>. QED
    BY <1>1, <1>2

\* What toScoreInput hands to the scores.
ScoreInput == [monthlyExpenses : Int, emergencyFund : Int, annualIncome : Int,
               existingLifeCover : Int, hasHealthInsurance : BOOLEAN,
               investmentAssets : Int, totalAssets : Int, totalLiabilities : Int,
               retirementCorpusGap : Int, retirementRequiredCorpus : Int]

\* The keys of the report.
LEMMA ScoreKeySet ==
    /\ ScoreKey = {"emergency_fund", "protection", "investments", "retirement", "debt"}
    /\ IsFiniteSet(ScoreKey)
<1>1. ScoreKey = {"emergency_fund", "protection", "investments", "retirement", "debt"}
    <2>1. DOMAIN ScoreKeys = 1..5
        BY DEF ScoreKeys
    <2>2. 1..5 = {1, 2, 3, 4, 5}
        OBVIOUS
    <2>3. /\ ScoreKeys[1] = "emergency_fund" /\ ScoreKeys[2] = "protection"
          /\ ScoreKeys[3] = "investments" /\ ScoreKeys[4] = "retirement"
          /\ ScoreKeys[5] = "debt"
        BY DEF ScoreKeys
    <2>. QED
        BY <2>1, <2>2, <2>3 DEF ScoreKey, ToSet
<1>2. IsFiniteSet({"emergency_fund", "protection", "investments", "retirement", "debt"})
    <2>1. IsFiniteSet({"emergency_fund"})
        BY FS_Singleton
    <2>2. IsFiniteSet({"emergency_fund", "protection"})
        BY <2>1, FS_AddElement
    <2>3. IsFiniteSet({"emergency_fund", "protection"} \cup {"investments"})
        BY <2>2, FS_AddElement
    <2>4. IsFiniteSet(({"emergency_fund", "protection"} \cup {"investments"})
                          \cup {"retirement"})
        BY <2>3, FS_AddElement
    <2>5. IsFiniteSet((({"emergency_fund", "protection"} \cup {"investments"})
                          \cup {"retirement"}) \cup {"debt"})
        BY <2>4, FS_AddElement
    <2>6. {"emergency_fund", "protection", "investments", "retirement", "debt"}
            = (({"emergency_fund", "protection"} \cup {"investments"})
                  \cup {"retirement"}) \cup {"debt"}
        OBVIOUS
    <2>. QED
        BY <2>5, <2>6
<1>. QED
    BY <1>1, <1>2

\* Every sub-score is a whole number of 0..100.
LEMMA SubScores ==
    ASSUME NEW s \in ScoreInput
    PROVE  /\ EmergencyScore(s) \in 0..100 /\ ProtectionScore(s) \in 0..100
           /\ InvestmentScore(s) \in 0..100 /\ RetirementScore(s) \in 0..100
           /\ DebtScore(s) \in 0..100
<1>1. /\ s.monthlyExpenses \in Int /\ s.emergencyFund \in Int /\ s.annualIncome \in Int
      /\ s.existingLifeCover \in Int /\ s.investmentAssets \in Int
      /\ s.totalAssets \in Int /\ s.totalLiabilities \in Int
      /\ s.retirementCorpusGap \in Int /\ s.retirementRequiredCorpus \in Int
    BY DEF ScoreInput
<1>2. EmergencyScore(s) \in 0..100
    <2>1. CASE s.monthlyExpenses > 0
        <3>1. 100 * s.emergencyFund \in Int /\ 6 * s.monthlyExpenses \in Nat \ {0}
            BY <1>1, <2>1
        <3>. QED
            BY <2>1, <3>1, ScoresInRange DEF EmergencyScore
    <2>. QED
        BY <2>1 DEF EmergencyScore
<1>3. ProtectionScore(s) \in 0..100
    <2>1. ASSUME NEW bonus \in {0, 20}, s.annualIncome > 0
          PROVE  Clamp(8 * s.existingLifeCover + bonus * s.annualIncome, s.annualIncome)
                    \in 0..100
        <3>1. 8 * s.existingLifeCover + bonus * s.annualIncome \in Int
              /\ s.annualIncome \in Nat \ {0}
            BY <1>1, <2>1
        <3>. QED
            BY <3>1, ScoresInRange
    <2>. QED
        BY <2>1 DEF ProtectionScore
<1>4. InvestmentScore(s) \in 0..100
    <2>1. CASE s.annualIncome > 0
        <3>1. 100 * s.investmentAssets \in Int /\ 3 * s.annualIncome \in Nat \ {0}
            BY <1>1, <2>1
        <3>. QED
            BY <2>1, <3>1, ScoresInRange DEF InvestmentScore
    <2>. QED
        BY <2>1 DEF InvestmentScore
<1>5. RetirementScore(s) \in 0..100
    <2>1. CASE s.retirementRequiredCorpus > 0
        <3>1. /\ 100 * (s.retirementRequiredCorpus - s.retirementCorpusGap) \in Int
              /\ s.retirementRequiredCorpus \in Nat \ {0}
            BY <1>1, <2>1
        <3>. QED
            BY <2>1, <3>1, ScoresInRange DEF RetirementScore
    <2>. QED
        BY <2>1 DEF RetirementScore
<1>6. DebtScore(s) \in 0..100
    <2>1. CASE s.totalAssets > 0
        <3>1. /\ 100 * (s.totalAssets - Smaller(s.totalAssets, s.totalLiabilities)) \in Int
              /\ s.totalAssets \in Nat \ {0}
            BY <1>1, <2>1 DEF Smaller
        <3>. QED
            BY <2>1, <3>1, ScoresInRange DEF DebtScore
    <2>. QED
        BY <2>1 DEF DebtScore
<1>. QED
    BY <1>2, <1>3, <1>4, <1>5, <1>6

\* The report's sub-score of each key.
LEMMA ReportScores ==
    ASSUME NEW s \in ScoreInput
    PROVE  LET score == ComputeWealthHealth(s).score IN
           /\ score.emergency_fund = EmergencyScore(s)
           /\ score.protection = ProtectionScore(s)
           /\ score.investments = InvestmentScore(s)
           /\ score.retirement = RetirementScore(s)
           /\ score.debt = DebtScore(s)
           /\ \A k \in ScoreKey : score[k] \in 0..100
           /\ ComputeWealthHealth(s).overall =
                 Clamp(SumOver([k \in ScoreKey |-> Weight[k] * score[k]], ScoreKey), 100)
<1>. DEFINE score == [emergency_fund |-> EmergencyScore(s), protection |-> ProtectionScore(s),
                      investments |-> InvestmentScore(s), retirement |-> RetirementScore(s),
                      debt |-> DebtScore(s)]
<1>1. /\ ComputeWealthHealth(s).score = score
      /\ ComputeWealthHealth(s).overall =
            Clamp(SumOver([k \in ScoreKey |-> Weight[k] * score[k]], ScoreKey), 100)
    BY DEF ComputeWealthHealth
<1>2. \A k \in ScoreKey : score[k] \in 0..100
    BY ScoreKeySet, SubScores
<1>3. /\ score.emergency_fund = EmergencyScore(s)
      /\ score.protection = ProtectionScore(s)
      /\ score.investments = InvestmentScore(s)
      /\ score.retirement = RetirementScore(s)
      /\ score.debt = DebtScore(s)
    OBVIOUS
<1>. HIDE DEF score
<1>. QED
    BY <1>1, <1>2, <1>3

\* Where no sub-score is lower, the overall score is not.
LEMMA OverallFollows ==
    ASSUME NEW s \in ScoreInput, NEW t \in ScoreInput,
           \A k \in ScoreKey :
               ComputeWealthHealth(s).score[k] <= ComputeWealthHealth(t).score[k]
    PROVE  ComputeWealthHealth(s).overall <= ComputeWealthHealth(t).overall
<1>. DEFINE a == ComputeWealthHealth(s).score
            b == ComputeWealthHealth(t).score
            f == [k \in ScoreKey |-> Weight[k] * a[k]]
            g == [k \in ScoreKey |-> Weight[k] * b[k]]
<1>1. /\ ComputeWealthHealth(s).overall = Clamp(SumOver(f, ScoreKey), 100)
      /\ ComputeWealthHealth(t).overall = Clamp(SumOver(g, ScoreKey), 100)
      /\ \A k \in ScoreKey : a[k] \in 0..100 /\ b[k] \in 0..100 /\ a[k] <= b[k]
    BY ReportScores
<1>. HIDE DEF a, b
<1>2. \A k \in ScoreKey : f[k] \in Int /\ g[k] \in Int /\ f[k] <= g[k]
    <2>1. ASSUME NEW k \in ScoreKey PROVE Weight[k] \in Nat
        BY ScoreKeySet DEF Weight
    <2>2. ASSUME NEW k \in ScoreKey
          PROVE  Weight[k] * a[k] \in Int /\ Weight[k] * b[k] \in Int
                 /\ Weight[k] * a[k] <= Weight[k] * b[k]
        <3>0. a[k] \in Int /\ b[k] \in Int /\ a[k] <= b[k]
            BY <1>1
        <3>1. PICK w \in Nat, u \in Int, v \in Int :
                  w = Weight[k] /\ u = a[k] /\ v = b[k] /\ u <= v
            BY <2>1, <3>0
        <3>2. w * u \in Int /\ w * v \in Int /\ w * u <= w * v
            BY <3>1, Product
        <3>. QED
            BY <3>1, <3>2
    <2>. QED
        BY <2>2
<1>. HIDE DEF f, g
<1>3. /\ SumOver(f, ScoreKey) \in Int /\ SumOver(g, ScoreKey) \in Int
      /\ SumOver(f, ScoreKey) <= SumOver(g, ScoreKey)
    BY <1>2, ScoreKeySet, SumInt, SumMonotone
<1>4. SumOver(f, ScoreKey) * 100 <= SumOver(g, ScoreKey) * 100
    BY <1>3
<1>. QED
    BY <1>1, <1>3, <1>4, ClampMonotone
------------------------------------------------------------------------------
(* Projections *)

\* What is left of a return after tax is whole, in thousandths of a percent.
LEMMA AfterTaxType ==
    ASSUME NEW gross \in Int, NEW tax \in Int
    PROVE  AfterTax(gross, tax) \in Int
<1>1. gross * (1000 - tax) \in Int /\ gross * 1000 \in Int
    OBVIOUS
<1>. QED
    BY <1>1 DEF AfterTax, NetOfTaxReturnPct

\* A net return is the fraction of a whole percentage over a positive whole.
LEMMA NetRateIs ==
    ASSUME NEW net \in Int, NEW whole \in Nat \ {0}
    PROVE  \E n \in Int, w \in Nat \ {0} : NetRate(net, whole) = Fraction(n, w)
<1>1. PICK n \in Int, d \in Nat \ {0} : n = Fraction(net, 1000).n /\ d = Fraction(net, 1000).d
    <2>1. PICK k \in Nat \ {0} : k = 1000
        OBVIOUS
    <2>2. Fraction(net, k).d \in 1..k /\ Fraction(net, k).n \in Int
        BY FractionType
    <2>3. Fraction(net, k).d \in Nat \ {0}
        BY <2>2
    <2>. QED
        BY <2>1, <2>2, <2>3
<1>2. d * whole \in Nat \ {0}
    <2>1. \A a, b \in Nat \ {0} : a * b \in Nat \ {0}
        OBVIOUS
    <2>. QED
        BY <2>1
<1>3. NetRate(net, whole) = Fraction(n, d * whole)
    BY <1>1 DEF NetRate
<1>. QED
    BY <1>2, <1>3

\* Growth at a percentage, over whole periods, is a fraction of positive whole.
LEMMA GrowthType ==
    ASSUME NEW percent \in Int, NEW whole \in Nat \ {0}, NEW n \in Nat
    PROVE  /\ Grown(Fraction(percent, whole), n) \in Int
           /\ Ungrown(Fraction(percent, whole), n) \in Nat \ {0}
<1>. DEFINE f == Fraction(percent, whole)
<1>1. f.d \in Int /\ f.d > 0 /\ f.n \in Int /\ f.d + f.n \in Int
    BY FractionType
<1>. HIDE DEF f
<1>2. Power(f.d, n) \in Int /\ Power(f.d, n) > 0 /\ Power(f.d + f.n, n) \in Int
    BY <1>1, PowerType
<1>3. Grown(f, n) \in Int /\ Ungrown(f, n) \in Nat \ {0}
    BY <1>2 DEF Grown, Ungrown
<1>. QED
    BY <1>3 DEF f

\* An amount that is not negative stays so when it is rounded.
LEMMA FromMinorType ==
    ASSUME NEW num \in Int, NEW den \in Nat \ {0}
    PROVE  /\ FromMinor(num, den) \in Int
           /\ num >= 0 => FromMinor(num, den) \in Nat
<1>1. Round(num, den) \in Int
    BY RoundIsNear
<1>2. ASSUME num >= 0 PROVE Round(num, den) >= 0
    <2>1. PICK z \in Int : z = 0 /\ Round(den * z, den) = z
        BY RoundWhole
    <2>2. PICK m \in Int : m = den * z /\ m = 0
        BY <2>1
    <2>3. m * den <= num * den
        <3>1. den * 0 <= den * num
            BY <1>2, Product
        <3>. QED
            BY <2>2, <3>1
    <2>4. Round(m, den) <= Round(num, den)
        BY <2>3, RoundMonotone
    <2>. QED
        BY <1>1, <2>1, <2>2, <2>4
<1>. QED
    BY <1>1, <1>2 DEF FromMinor

\* The gap of a goal's plan is a whole amount that is not negative.
LEMMA GapType ==
    ASSUME NEW goal \in GoalType
    PROVE  Plan(goal).gap \in Nat
<1>. DEFINE g == Over([tax |-> NoTax, stepUp |-> 0], goal)
            months == Larger(1, g.months)
            rate   == MonthlyRate(AfterTax(g.return, g.tax))
            whole  == Ungrown(rate, months)
            gap    == Larger(0, g.target * whole - g.current * Grown(rate, months))
<1>1. /\ g.months \in Int /\ g.return \in Int /\ g.target \in Int /\ g.current \in Int
      /\ g.tax = NoTax
    BY DEF Over, GoalType
<1>. HIDE DEF g
<1>2. months \in Nat /\ NoTax \in Int
    BY <1>1 DEF Larger, NoTax
<1>3. AfterTax(g.return, g.tax) \in Int
    BY <1>1, <1>2, AfterTaxType
<1>4. whole \in Nat \ {0} /\ Grown(rate, months) \in Int
    <2>1. PICK net \in Int : net = AfterTax(g.return, g.tax)
        BY <1>3
    <2>2. rate = NetRate(net, 1200) /\ 1200 \in Nat \ {0}
        BY <2>1 DEF MonthlyRate
    <2>. HIDE DEF months, rate
    <2>3. PICK n \in Int, w \in Nat \ {0} : rate = Fraction(n, w)
        BY <2>2, NetRateIs
    <2>4. /\ Ungrown(Fraction(n, w), months) \in Nat \ {0}
          /\ Grown(Fraction(n, w), months) \in Int
        BY <1>2, GrowthType
    <2>. QED
        BY <2>3, <2>4
<1>5. Plan(goal).gap = FromMinor(gap, whole)
    BY DEF Plan, PlanGoal, g
<1>. HIDE DEF months, whole, rate
<1>6. gap \in Nat
    <2>1. g.target * whole \in Int /\ g.current * Grown(rate, months) \in Int
        BY <1>1, <1>4
    <2>. QED
        BY <2>1 DEF Larger
<1>. QED
    BY <1>4, <1>5, <1>6, FromMinorType

\* The corpus that lasts through retirement is a fraction of positive whole, also
\* when what is left in it earns less than inflation.
LEMMA DrawdownType ==
    ASSUME NEW annual \in Int, NEW years \in Nat, NEW return \in Nat, NEW inflation \in Nat
    PROVE  /\ CorpusForDrawdown(annual, years, return, inflation).n \in Int
           /\ CorpusForDrawdown(annual, years, return, inflation).d \in Nat \ {0}
<1>. DEFINE q == Fraction(100 + return, 100 + inflation)
            up == Power(q.n, years)
            dn == Power(q.d, years)
<1>1. CASE return = inflation
    BY <1>1 DEF CorpusForDrawdown
<1>2. CASE return # inflation
    <2>1. PICK w \in Nat \ {0}, p \in Nat \ {0} : w = 100 + inflation /\ p = 100 + return /\ w # p
        BY <1>2
    <2>2. q.d \in 1..w /\ q.n \in Int /\ w * q.n = q.d * p
        BY <2>1, FractionType
    <2>. HIDE DEF q
    <2>3. PICK d \in Nat \ {0}, n \in Int : d = q.d /\ n = q.n /\ w * n = d * p
        BY <2>2
    <2>4. n > 0
        <3>1. PICK z \in Int : z = 0
            OBVIOUS
        <3>2. w * z = 0 /\ d * 1 <= d * p
            BY <3>1, Product
        <3>3. w * z < w * n
            BY <2>3, <3>2
        <3>. QED
            BY <3>1, <3>3, Divide
    <2>5. n # d
        <3>1. SUFFICES ASSUME n = d PROVE FALSE
            OBVIOUS
        <3>2. d * w = d * p
            <4>1. w * d = d * w
                OBVIOUS
            <4>. QED
                BY <2>3, <3>1, <4>1
        <3>3. ~(d * w < d * p) /\ ~(d * p < d * w)
            BY <3>2
        <3>4. CASE w < p
            <4>1. d * (w + 1) <= d * p
                BY <3>4, Product
            <4>2. d * (w + 1) = d * w + d
                OBVIOUS
            <4>. QED
                BY <3>2, <4>1, <4>2
        <3>5. CASE p < w
            <4>1. d * (p + 1) <= d * w
                BY <3>5, Product
            <4>2. d * (p + 1) = d * p + d
                OBVIOUS
            <4>. QED
                BY <3>2, <4>1, <4>2
        <3>. QED
            BY <2>1, <3>4, <3>5
    <2>6. up \in Int /\ up > 0 /\ dn \in Int
        <3>1. q.n \in Int /\ q.n > 0 /\ q.d \in Int
            BY <2>2, <2>3, <2>4
        <3>. QED
            BY <3>1, PowerType
    <2>7. /\ CorpusForDrawdown(annual, years, return, inflation).n
                = annual * Magnitude(up - dn) * q.n
          /\ CorpusForDrawdown(annual, years, return, inflation).d = up * Magnitude(q.n - q.d)
        BY <1>2 DEF CorpusForDrawdown, q
    <2>. HIDE DEF up, dn
    <2>8. PICK u \in Nat \ {0}, v \in Int, m \in Nat \ {0} :
              u = up /\ v = Magnitude(up - dn) /\ m = Magnitude(n - d)
        <3>1. up \in Nat \ {0}
            BY <2>6
        <3>2. Magnitude(up - dn) \in Int
            BY <2>6 DEF Magnitude
        <3>3. Magnitude(n - d) \in Nat \ {0}
            BY <2>5 DEF Magnitude
        <3>. QED
            BY <3>1, <3>2, <3>3
    <2>9. annual * v * n \in Int /\ u * m \in Nat \ {0}
        OBVIOUS
    <2>. QED
        BY <2>3, <2>7, <2>8, <2>9
<1>. QED
    BY <1>1, <1>2

\* An amount that grows at a whole percentage is a fraction of positive whole.
LEMMA FutureValueType ==
    ASSUME NEW value \in Int, NEW percent \in Int, NEW whole \in Nat \ {0}, NEW years \in Nat
    PROVE  /\ FutureValue(value, Fraction(percent, whole), years).n \in Int
           /\ FutureValue(value, Fraction(percent, whole), years).d \in Nat \ {0}
<1>. DEFINE rate == Fraction(percent, whole)
<1>1. Grown(rate, years) \in Int /\ Ungrown(rate, years) \in Nat \ {0}
    BY GrowthType
<1>. HIDE DEF rate
<1>2. value * Grown(rate, years) \in Int
    BY <1>1
<1>3. /\ FutureValue(value, rate, years).n \in Int
      /\ FutureValue(value, rate, years).d \in Nat \ {0}
    BY <1>1, <1>2 DEF FutureValue
<1>. QED
    BY <1>3 DEF rate

\* So is what one such amount falls short of another.
LEMMA ShortfallType ==
    ASSUME NEW required, required.n \in Int, required.d \in Nat \ {0},
           NEW projected, projected.n \in Int, projected.d \in Nat \ {0}
    PROVE  /\ Shortfall(required, projected).n \in Int
           /\ Shortfall(required, projected).d \in Nat \ {0}
<1>1. \A a, b \in Nat \ {0} : a * b \in Nat \ {0}
    OBVIOUS
<1>2. required.n * projected.d \in Int /\ projected.n * required.d \in Int
    OBVIOUS
<1>3. required.d * projected.d \in Nat \ {0}
    BY <1>1
<1>. QED
    BY <1>2, <1>3 DEF Shortfall, Larger

\* What computeRetirement is asked for.
Retirement == [age : Int, retirementAge : Int, yearsInRetirement : Nat, expenses : Int,
               corpus : Int, inflation : Nat, preReturn : Nat, postReturn : Nat, tax : Nat]

\* The corpus required and the gap to it are whole amounts (computeRetirement).
LEMMA RetirementType ==
    ASSUME NEW p \in Retirement
    PROVE  /\ ComputeRetirement(p).requiredCorpus \in Int
           /\ ComputeRetirement(p).corpusGap \in Int
<1>. DEFINE years     == Larger(0, p.retirementAge - p.age)
            preReturn == AfterTax(p.preReturn, p.tax)
            inflated  == FutureValue(p.expenses, Fraction(p.inflation, 100), years)
            drawdown  == CorpusForDrawdown(inflated.n, p.yearsInRetirement, p.postReturn,
                                           p.inflation)
            required  == [n |-> drawdown.n, d |-> drawdown.d * inflated.d]
            projected == FutureValue(p.corpus, NetRate(preReturn, 100), years)
            gap       == Shortfall(required, projected)
<1>1. /\ p.age \in Int /\ p.retirementAge \in Int /\ p.yearsInRetirement \in Nat
      /\ p.expenses \in Int /\ p.corpus \in Int /\ p.inflation \in Nat
      /\ p.preReturn \in Int /\ p.postReturn \in Nat /\ p.tax \in Int
    BY DEF Retirement
<1>2. /\ ComputeRetirement(p).requiredCorpus = FromMinor(required.n, required.d)
      /\ ComputeRetirement(p).corpusGap = FromMinor(gap.n, gap.d)
    BY DEF ComputeRetirement, RetirementResult
<1>3. years \in Nat
    BY <1>1 DEF Larger
<1>4. preReturn \in Int /\ p.inflation \in Int
    <2>1. AfterTax(p.preReturn, p.tax) \in Int
        BY <1>1, AfterTaxType
    <2>2. p.inflation \in Int
        BY <1>1
    <2>. QED
        BY <2>1, <2>2
<1>. HIDE DEF years, preReturn
<1>5. /\ inflated.n \in Int /\ inflated.d \in Nat \ {0}
      /\ projected.n \in Int /\ projected.d \in Nat \ {0}
    <2>1. 100 \in Nat \ {0}
        OBVIOUS
    <2>2. PICK n \in Int, w \in Nat \ {0} : NetRate(preReturn, 100) = Fraction(n, w)
        BY <1>4, <2>1, NetRateIs
    <2>3. inflated.n \in Int /\ inflated.d \in Nat \ {0}
        BY <1>1, <1>3, <1>4, <2>1, FutureValueType, ZenonT(30)
    <2>4. projected.n \in Int /\ projected.d \in Nat \ {0}
        <3>1. projected = FutureValue(p.corpus, Fraction(n, w), years)
            BY <2>2
        <3>. HIDE DEF projected
        <3>. QED
            BY <1>1, <1>3, <3>1, FutureValueType, ZenonT(30)
    <2>. QED
        BY <2>3, <2>4
<1>. HIDE DEF inflated, projected
<1>6. drawdown.n \in Int /\ drawdown.d \in Nat \ {0}
    BY <1>1, <1>5, DrawdownType
<1>. HIDE DEF drawdown
<1>7. required.n \in Int /\ required.d \in Nat \ {0}
    <2>1. \A a, b \in Nat \ {0} : a * b \in Nat \ {0}
        OBVIOUS
    <2>2. drawdown.d * inflated.d \in Nat \ {0}
        BY <1>5, <1>6, <2>1
    <2>. QED
        BY <1>6, <2>2
<1>. HIDE DEF required
<1>8. gap.n \in Int /\ gap.d \in Nat \ {0}
    BY <1>5, <1>7, ShortfallType
<1>. HIDE DEF gap
<1>. QED
    BY <1>2, <1>7, <1>8, FromMinorType
------------------------------------------------------------------------------
(* Reading *)

\* What one query can return, and the rows of the tables read so far.
Piece == {r[t] : r \in UserRows, t \in Table}
Got   == UNION {[T -> Piece] : T \in SUBSET Table}

\* The tables the outstanding queries read, and those a report is drawn from.
Pending(todo) == UNION {todo[n] : n \in 1..Len(todo)}
Tables(kind)  == Pending(Queries(kind))

\* The rows keep their types; a request has read, or is yet to read, the tables of
\* its kind, and what it read is what is there until another request changes it.
TypeOK ==
    /\ rows \in UserRows
    /\ req # None => req \in [kind : Kind, todo : Seq(SUBSET Table), got : Got,
                              llm : BOOLEAN, torn : BOOLEAN]
    /\ answer # None => answer \in [kind : Kind, got : Got, ai : BOOLEAN, torn : BOOLEAN]

ReadInv ==
    /\ req # None =>
          /\ Pending(req.todo) \cup DOMAIN req.got = Tables(req.kind)
          /\ ~req.torn => \A t \in DOMAIN req.got : req.got[t] = rows[t]
    /\ answer # None =>
          /\ DOMAIN answer.got = Tables(answer.kind)
          /\ ~answer.torn => \A t \in DOMAIN answer.got : answer.got[t] = rows[t]

HouseholdInv == TypeOK /\ ReadInv

\* A table is outstanding when some set of queries has it.
LEMMA IsPending ==
    ASSUME NEW todo, NEW t
    PROVE  t \in Pending(todo) <=> \E n \in 1..Len(todo) : t \in todo[n]
BY DEF Pending

\* With no query left nothing is outstanding.
LEMMA NothingPending == Pending(<<>>) = {}
<1>1. Len(<<>>) = 0
    OBVIOUS
<1>2. 1..0 = {}
    OBVIOUS
<1>. QED
    BY <1>1, <1>2 DEF Pending

\* A query that returns leaves the others of its set, or else the sets after it.
LEMMA PendingAfter ==
    ASSUME NEW todo \in Seq(SUBSET Table), todo # <<>>, NEW t \in Head(todo),
           NEW left, left = IF Head(todo) \ {t} = {} THEN Tail(todo)
                            ELSE <<Head(todo) \ {t}>> \o Tail(todo)
    PROVE  left \in Seq(SUBSET Table) /\ Pending(left) \cup {t} = Pending(todo)
<1>1. /\ Tail(todo) \in Seq(SUBSET Table) /\ Len(Tail(todo)) = Len(todo) - 1
      /\ \A n \in 1..Len(Tail(todo)) : Tail(todo)[n] = todo[n + 1]
      /\ Head(todo) = todo[1] /\ Len(todo) \in Nat \ {0} /\ Head(todo) \in SUBSET Table
    BY HeadTailProperties, EmptySeq, LenProperties, ElementOfSeq
<1>2. Pending(todo) = Head(todo) \cup Pending(Tail(todo))
    <2>1. ASSUME NEW n \in 1..Len(todo), n # 1
          PROVE  n - 1 \in 1..Len(Tail(todo)) /\ todo[n] = Tail(todo)[n - 1]
        BY <1>1, <2>1
    <2>2. ASSUME NEW n \in 1..Len(Tail(todo))
          PROVE  n + 1 \in 1..Len(todo) /\ Tail(todo)[n] = todo[n + 1]
        BY <1>1
    <2>3. 1 \in 1..Len(todo)
        BY <1>1
    <2>4. ASSUME NEW x \in Pending(todo)
          PROVE  x \in Head(todo) \/ x \in Pending(Tail(todo))
        <3>1. PICK n \in 1..Len(todo) : x \in todo[n]
            BY IsPending
        <3>2. CASE n = 1
            BY <1>1, <3>1, <3>2
        <3>3. CASE n # 1
            BY <2>1, <3>1, <3>3, IsPending
        <3>. QED
            BY <3>2, <3>3
    <2>5. ASSUME NEW x, x \in Head(todo) \/ x \in Pending(Tail(todo))
          PROVE  x \in Pending(todo)
        <3>1. CASE x \in Head(todo)
            BY <1>1, <2>3, <3>1, IsPending
        <3>2. CASE x \in Pending(Tail(todo))
            <4>1. PICK n \in 1..Len(Tail(todo)) : x \in Tail(todo)[n]
                BY <3>2, IsPending
            <4>. QED
                BY <2>2, <4>1, IsPending
        <3>. QED
            BY <2>5, <3>1, <3>2
    <2>. QED
        BY <2>4, <2>5
<1>3. CASE Head(todo) \ {t} = {}
    BY <1>1, <1>2, <1>3
<1>4. CASE Head(todo) \ {t} # {}
    <2>. DEFINE rest == Head(todo) \ {t}
    <2>1. <<rest>> \in Seq(SUBSET Table) /\ Len(<<rest>>) = 1 /\ <<rest>>[1] = rest
        BY <1>1
    <2>. HIDE DEF rest
    <2>2. /\ left = <<rest>> \o Tail(todo) /\ left \in Seq(SUBSET Table)
          /\ Len(left) = 1 + Len(Tail(todo))
          /\ \A n \in 1..Len(left) :
                left[n] = IF n <= 1 THEN rest ELSE Tail(todo)[n - 1]
        <3>1. left = <<rest>> \o Tail(todo)
            BY <1>4 DEF rest
        <3>2. PICK one \in Seq(SUBSET Table), more \in Seq(SUBSET Table) :
                  one = <<rest>> /\ more = Tail(todo)
            BY <1>1, <2>1
        <3>3. /\ one \o more \in Seq(SUBSET Table) /\ Len(one \o more) = Len(one) + Len(more)
              /\ \A n \in 1..(Len(one) + Len(more)) :
                    (one \o more)[n] = IF n <= Len(one) THEN one[n] ELSE more[n - Len(one)]
            BY ConcatProperties
        <3>4. left = one \o more /\ Len(one) = 1 /\ one[1] = rest
            BY <2>1, <3>1, <3>2
        <3>5. ASSUME NEW n \in 1..(1 + Len(Tail(todo)))
              PROVE  left[n] = IF n <= 1 THEN rest ELSE Tail(todo)[n - 1]
            <4>1. n \in 1..(Len(one) + Len(more))
                BY <3>2, <3>4
            <4>2. left[n] = IF n <= 1 THEN one[n] ELSE more[n - 1]
                BY <3>3, <3>4, <4>1
            <4>3. n <= 1 => n = 1
                OBVIOUS
            <4>. QED
                BY <3>2, <3>4, <4>2, <4>3
        <3>6. Len(left) = 1 + Len(Tail(todo)) /\ left \in Seq(SUBSET Table)
            BY <3>2, <3>3, <3>4
        <3>. QED
            BY <3>1, <3>5, <3>6
    <2>3. Pending(left) = rest \cup Pending(Tail(todo))
        <3>0. Len(Tail(todo)) \in Nat
            BY <1>1
        <3>1. ASSUME NEW n \in 1..Len(left), n # 1
              PROVE  n - 1 \in 1..Len(Tail(todo)) /\ left[n] = Tail(todo)[n - 1]
            BY <2>2, <3>0, <3>1
        <3>2. ASSUME NEW n \in 1..Len(Tail(todo))
              PROVE  n + 1 \in 1..Len(left) /\ left[n + 1] = Tail(todo)[n]
            <4>1. n + 1 \in 1..Len(left) /\ ~(n + 1 <= 1) /\ (n + 1) - 1 = n
                BY <2>2, <3>0
            <4>. QED
                BY <2>2, <4>1
        <3>3. 1 \in 1..Len(left) /\ left[1] = rest
            BY <2>2, <3>0
        <3>4. ASSUME NEW x \in Pending(left) PROVE x \in rest \/ x \in Pending(Tail(todo))
            <4>1. PICK n \in 1..Len(left) : x \in left[n]
                BY IsPending
            <4>2. CASE n = 1
                BY <3>3, <4>1, <4>2
            <4>3. CASE n # 1
                BY <3>1, <4>1, <4>3, IsPending
            <4>. QED
                BY <4>2, <4>3
        <3>5. ASSUME NEW x, x \in rest \/ x \in Pending(Tail(todo)) PROVE x \in Pending(left)
            <4>1. CASE x \in rest
                BY <3>3, <4>1, IsPending
            <4>2. CASE x \in Pending(Tail(todo))
                <5>1. PICK n \in 1..Len(Tail(todo)) : x \in Tail(todo)[n]
                    BY <4>2, IsPending
                <5>. QED
                    BY <3>2, <5>1, IsPending
            <4>. QED
                BY <3>5, <4>1, <4>2
        <3>. QED
            BY <3>4, <3>5
    <2>4. rest \cup {t} = Head(todo)
        BY DEF rest
    <2>. QED
        BY <1>2, <2>2, <2>3, <2>4
<1>. QED
    BY <1>3, <1>4

\* The queries of every kind read tables.
LEMMA QueriesType == ASSUME NEW kind \in Kind PROVE Queries(kind) \in Seq(SUBSET Table)
<1>1. ASSUME NEW S \in SUBSET Table PROVE <<S>> \in Seq(SUBSET Table)
    OBVIOUS
<1>2. ASSUME NEW S \in SUBSET Table, NEW T \in SUBSET Table
      PROVE  <<S, T>> \in Seq(SUBSET Table)
    OBVIOUS
<1>3. /\ {"accounts"} \in SUBSET Table /\ {"profile"} \in SUBSET Table
      /\ {"profile", "accounts", "debts", "goals"} \in SUBSET Table
      /\ {"profile", "accounts"} \in SUBSET Table /\ {"txs"} \in SUBSET Table
      /\ {"goals"} \in SUBSET Table
    BY DEF Table
<1>4. CASE kind \in {"current", "capture"}
    BY <1>2, <1>3, <1>4 DEF Queries
<1>5. CASE kind \in {"warning", "coach"}
    BY <1>1, <1>3, <1>5 DEF Queries
<1>6. CASE kind = "second"
    BY <1>1, <1>3, <1>6 DEF Queries
<1>7. CASE kind = "cashflow"
    BY <1>2, <1>3, <1>7 DEF Queries
<1>8. CASE kind = "goals"
    BY <1>1, <1>3, <1>8 DEF Queries
<1>. QED
    BY <1>4, <1>5, <1>6, <1>7, <1>8 DEF Kind

\* The coach and the warnings are drawn from four tables.
LEMMA TablesOfSnapshot ==
    ASSUME NEW kind \in {"coach", "warning"}
    PROVE  Tables(kind) = {"profile", "accounts", "debts", "goals"}
<1>. DEFINE T == {"profile", "accounts", "debts", "goals"}
<1>1. Queries(kind) = <<T>>
    BY DEF Queries
<1>. HIDE DEF T
<1>2. Len(<<T>>) = 1 /\ <<T>>[1] = T /\ 1..1 = {1}
    OBVIOUS
<1>3. Tables(kind) = T
    BY <1>1, <1>2 DEF Tables, Pending
<1>. QED
    BY <1>3 DEF T

\* The records of a report in progress and of a report sent.
Request == [kind : Kind, todo : Seq(SUBSET Table), got : Got, llm : BOOLEAN, torn : BOOLEAN]
Sent    == [kind : Kind, got : Got, ai : BOOLEAN, torn : BOOLEAN]

\* The changes of the rows keep the types of their tables.
LEMMA ChangedRows ==
    ASSUME TypeOK, Change
    PROVE  rows' \in UserRows /\ \E newRows \in UserRows : Edit(newRows)
<1>. USE HouseholdAssumption
<1>0. rows \in UserRows
    BY DEF TypeOK
<1>1. ASSUME NEW r \in UserRows, Edit(r) PROVE rows' \in UserRows /\ Edit(r)
    BY <1>1 DEF Edit
<1>2. ASSUME NEW i \in AccountId, NEW row \in AccountRow, CreateAccount(i, row)
      PROVE  \E r \in UserRows : Edit(r)
    <2>1. [rows EXCEPT !.accounts[i] = row] \in UserRows
        BY <1>0, <1>2 DEF UserRows
    <2>. QED
        BY <1>2, <2>1 DEF CreateAccount
<1>3. ASSUME NEW i \in AccountId, NEW b \in Balances, UpdateAccount(i, b)
      PROVE  \E r \in UserRows : Edit(r)
    <2>1. rows.accounts[i] \in AccountType /\ b \in Int
        BY <1>0, <1>3 DEF UserRows, UpdateAccount
    <2>2. [rows.accounts[i] EXCEPT !.balance = b] \in AccountType
        BY <2>1 DEF AccountType
    <2>3. [rows EXCEPT !.accounts[i].balance = b] \in UserRows
        BY <1>0, <2>2 DEF UserRows
    <2>. QED
        BY <1>3, <2>3 DEF UpdateAccount
<1>4. ASSUME NEW i \in AccountId, RemoveAccount(i)
      PROVE  \E r \in UserRows : Edit(r)
    <2>1. [rows EXCEPT !.accounts[i] = NoRow] \in UserRows
        BY <1>0, <1>4 DEF UserRows
    <2>. QED
        BY <1>4, <2>1 DEF RemoveAccount
<1>5. ASSUME NEW dto \in ProfileDto, UpsertProfile(dto)
      PROVE  \E r \in UserRows : Edit(r)
    <2>. DEFINE old == IF rows.profile = NoRow THEN NoProfile ELSE rows.profile
    <2>1. old \in ProfileType
        <3>1. NoProfile \in ProfileType
            <4>1. "INR" \in CurrencyCode /\ "moderate" \in RiskTolerance /\ 0 \in Int
                BY DEF CurrencyCode, RiskTolerance
            <4>2. None \in Int \cup {None} /\ FALSE \in BOOLEAN
                OBVIOUS
            <4>. QED
                BY <4>1, <4>2 DEF NoProfile, ProfileType
        <3>. QED
            BY <1>0, <3>1 DEF UserRows
    <2>2. Over(dto, old) \in ProfileType
        <3>1. DOMAIN dto \subseteq DOMAIN NoProfile /\ Over(dto, NoProfile) \in ProfileType
            OBVIOUS
        <3>2. DOMAIN old = DOMAIN NoProfile
            BY <2>1 DEF NoProfile, ProfileType
        <3>3. \A k \in DOMAIN dto : dto[k] = Over(dto, NoProfile)[k]
            BY <3>1 DEF Over
        <3>4. DOMAIN Over(dto, old) = DOMAIN NoProfile
            BY <3>1, <3>2 DEF Over
        <3>5. ASSUME NEW k \in DOMAIN NoProfile
              PROVE  Over(dto, old)[k] \in {Over(dto, NoProfile)[k], old[k]}
            BY <3>1, <3>2 DEF Over
        <3>. HIDE DEF old
        <3>. QED
            BY <2>1, <3>1, <3>4, <3>5 DEF NoProfile, ProfileType, Over
    <2>3. [rows EXCEPT !.profile = Over(dto, old)] \in UserRows
        BY <1>0, <2>2 DEF UserRows
    <2>. QED
        BY <1>5, <2>3 DEF UpsertProfile
<1>6. ASSUME NEW i \in GoalId, RemoveGoal(i)
      PROVE  \E r \in UserRows : Edit(r)
    <2>1. [rows EXCEPT !.goals[i] = NoRow] \in UserRows
        BY <1>0, <1>6 DEF UserRows
    <2>. QED
        BY <1>6, <2>1 DEF RemoveGoal
<1>7. ASSUME NEW i \in GoalId, NEW row \in GoalRow, CreateGoal(i, row)
      PROVE  \E r \in UserRows : Edit(r)
    <2>1. [rows EXCEPT !.goals[i] = row] \in UserRows
        BY <1>0, <1>7 DEF UserRows
    <2>. QED
        BY <1>7, <2>1 DEF CreateGoal
<1>8. ASSUME NEW i \in DebtId, NEW p \in Payment, CreateDebt(i, p)
      PROVE  \E r \in UserRows : Edit(r)
    <2>1. [rows EXCEPT !.debts[i] = p] \in UserRows
        BY <1>0, <1>8 DEF UserRows
    <2>. QED
        BY <1>8, <2>1 DEF CreateDebt
<1>9. ASSUME NEW i \in TxId, NEW row \in TxRow, CreateTransaction(i, row)
      PROVE  \E r \in UserRows : Edit(r)
    <2>1. [rows EXCEPT !.txs[i] = row] \in UserRows
        BY <1>0, <1>9 DEF UserRows
    <2>. QED
        BY <1>9, <2>1 DEF CreateTransaction
<1>10. \E r \in UserRows : Edit(r)
    BY <1>2, <1>3, <1>4, <1>5, <1>6, <1>7, <1>8, <1>9 DEF Change
<1>. QED
    BY <1>1, <1>10

\* Another request's change: what was read and what was said may be out of date.
LEMMA EditStep ==
    ASSUME HouseholdInv, NEW newRows \in UserRows, Edit(newRows)
    PROVE  HouseholdInv'
<1>1. /\ rows' = newRows /\ answer' = None
      /\ req' = IF req = None THEN None ELSE [req EXCEPT !.torn = TRUE]
    BY DEF Edit
<1>2. CASE req = None
    BY <1>1, <1>2 DEF HouseholdInv, TypeOK, ReadInv
<1>3. CASE req # None
    <2>1. req \in Request /\ Pending(req.todo) \cup DOMAIN req.got = Tables(req.kind)
        BY <1>3 DEF HouseholdInv, TypeOK, ReadInv, Request
    <2>2. /\ req' \in Request /\ req'.todo = req.todo /\ req'.got = req.got
          /\ req'.kind = req.kind /\ req'.torn
        BY <1>1, <1>3, <2>1 DEF Request
    <2>. QED
        BY <1>1, <2>1, <2>2 DEF HouseholdInv, TypeOK, ReadInv, Request
<1>. QED
    BY <1>2, <1>3

\* A request begins with nothing read.
LEMMA AskStep ==
    ASSUME HouseholdInv, NEW kind \in Kind, Ask(kind)
    PROVE  HouseholdInv'
<1>1. /\ req' = [kind |-> kind, todo |-> Queries(kind), got |-> <<>>, llm |-> FALSE,
                 torn |-> FALSE]
      /\ answer' = None /\ rows' = rows
    BY DEF Ask
<1>2. <<>> \in Got /\ DOMAIN <<>> = {}
    <2>1. {} \in SUBSET Table /\ <<>> \in [{} -> Piece]
        OBVIOUS
    <2>. QED
        BY <2>1 DEF Got
<1>3. Queries(kind) \in Seq(SUBSET Table)
    BY QueriesType
<1>4. req' \in Request
    BY <1>1, <1>2, <1>3 DEF Request
<1>5. /\ req'.todo = Queries(kind) /\ DOMAIN req'.got = {} /\ req'.kind = kind
    BY <1>1, <1>2
<1>6. Pending(req'.todo) \cup DOMAIN req'.got = Tables(req'.kind)
    BY <1>5 DEF Tables
<1>. QED
    BY <1>1, <1>4, <1>5, <1>6 DEF HouseholdInv, TypeOK, ReadInv, Request

\* A query returns the rows of the moment.
LEMMA ReadStep ==
    ASSUME HouseholdInv, NEW t \in Table, Read(t)
    PROVE  HouseholdInv'
<1>. DEFINE left == IF Head(req.todo) \ {t} = {} THEN Tail(req.todo)
                    ELSE <<Head(req.todo) \ {t}>> \o Tail(req.todo)
            now  == Over([k \in {t} |-> rows[k]], req.got)
<1>1. /\ req # None /\ req.todo # <<>> /\ t \in Head(req.todo)
      /\ req' = [req EXCEPT !.got = now, !.todo = left]
      /\ rows' = rows /\ answer' = answer
    BY DEF Read
<1>2. /\ req \in Request /\ rows \in UserRows
      /\ Pending(req.todo) \cup DOMAIN req.got = Tables(req.kind)
      /\ ~req.torn => \A u \in DOMAIN req.got : req.got[u] = rows[u]
      /\ req.todo \in Seq(SUBSET Table)
    BY <1>1 DEF HouseholdInv, TypeOK, ReadInv, Request
<1>3. left \in Seq(SUBSET Table) /\ Pending(left) \cup {t} = Pending(req.todo)
    BY <1>1, <1>2, PendingAfter
<1>4. /\ DOMAIN now = {t} \cup DOMAIN req.got /\ now[t] = rows[t]
      /\ \A u \in DOMAIN req.got \ {t} : now[u] = req.got[u]
    BY DEF Over
<1>5. now \in Got
    <2>1. PICK T \in SUBSET Table : req.got \in [T -> Piece]
        BY <1>2 DEF Request, Got
    <2>2. rows[t] \in Piece
        BY <1>2 DEF Piece
    <2>3. {t} \cup T \in SUBSET Table /\ now \in [{t} \cup T -> Piece]
        BY <2>1, <2>2 DEF Over
    <2>. QED
        BY <2>3 DEF Got
<1>. HIDE DEF left, now
<1>6. /\ req' \in Request /\ req'.todo = left /\ req'.got = now /\ req'.kind = req.kind
      /\ req'.torn = req.torn
    BY <1>1, <1>2, <1>3, <1>5 DEF Request
<1>7. Pending(req'.todo) \cup DOMAIN req'.got = Tables(req'.kind)
    BY <1>2, <1>3, <1>4, <1>6
<1>8. ~req'.torn => \A u \in DOMAIN req'.got : req'.got[u] = rows'[u]
    BY <1>1, <1>2, <1>4, <1>6
<1>. QED
    BY <1>1, <1>6, <1>7, <1>8 DEF HouseholdInv, TypeOK, ReadInv, Request

\* What was read is sent when no query is left.
LEMMA DoneStep ==
    ASSUME HouseholdInv, HasRead, NEW ai \in BOOLEAN, Done(ai), rows' = rows
    PROVE  HouseholdInv'
<1>1. /\ req \in Request /\ rows \in UserRows /\ req.todo = <<>>
      /\ Pending(req.todo) \cup DOMAIN req.got = Tables(req.kind)
      /\ ~req.torn => \A u \in DOMAIN req.got : req.got[u] = rows[u]
    BY DEF HasRead, HouseholdInv, TypeOK, ReadInv, Request
<1>2. DOMAIN req.got = Tables(req.kind)
    BY <1>1, NothingPending
<1>3. answer' = [kind |-> req.kind, got |-> req.got, ai |-> ai, torn |-> req.torn]
      /\ req' = None
    BY DEF Done
<1>4. /\ answer' \in Sent /\ answer'.got = req.got /\ answer'.kind = req.kind
      /\ answer'.torn = req.torn
    BY <1>1, <1>3 DEF Sent, Request
<1>. QED
    BY <1>1, <1>2, <1>3, <1>4 DEF HouseholdInv, TypeOK, ReadInv, Sent

\* A report speaks of the rows there are when nothing changed while it was drawn:
\* whichever requests of the user come between its queries.
THEOREM HouseholdInvariant == Spec => []HouseholdInv
<1>1. Init => HouseholdInv
    BY HouseholdAssumption DEF Init, HouseholdInv, TypeOK, ReadInv
<1>2. HouseholdInv /\ [Next]_vars => HouseholdInv'
    <2>. SUFFICES ASSUME HouseholdInv, [Next]_vars PROVE HouseholdInv'
        OBVIOUS
    <2>1. CASE Change
        BY <2>1, ChangedRows, EditStep DEF HouseholdInv
    <2>2. ASSUME NEW t \in Table, Read(t) PROVE HouseholdInv'
        BY <2>2, ReadStep
    <2>3. CASE Answer
        BY <2>3, DoneStep DEF Answer
    <2>4. CASE Capture
        BY <2>4, DoneStep DEF Capture
    <2>5. CASE AnswerWithoutLlm
        BY <2>5, DoneStep DEF AnswerWithoutLlm
    <2>6. CASE CallLlm
        <3>1. /\ req # None /\ req' = [req EXCEPT !.llm = TRUE]
              /\ rows' = rows /\ answer' = answer
            BY <2>6 DEF CallLlm, HasRead
        <3>2. req \in Request
            BY <3>1 DEF HouseholdInv, TypeOK, Request
        <3>3. /\ req' \in Request /\ req'.todo = req.todo /\ req'.got = req.got
              /\ req'.kind = req.kind /\ req'.torn = req.torn
            BY <3>1, <3>2 DEF Request
        <3>. QED
            BY <3>1, <3>3 DEF HouseholdInv, TypeOK, ReadInv, Request
    <2>7. CASE LlmEnds
        BY <2>7, DoneStep DEF LlmEnds
    <2>8. ASSUME NEW k \in Kind, Ask(k) PROVE HouseholdInv'
        BY <2>8, AskStep
    <2>9. CASE UNCHANGED vars
        BY <2>9 DEF vars, HouseholdInv, TypeOK, ReadInv
    <2>. QED
        BY <2>1, <2>2, <2>3, <2>4, <2>5, <2>6, <2>7, <2>8, <2>9 DEF Next, Handle
<1>. QED
    BY <1>1, <1>2, PTL DEF Spec

\* An untorn report of the coach, or of the warnings, is drawn from the user's rows
\* as they are.
LEMMA QuietReads ==
    ASSUME HouseholdInv, NEW kind \in {"coach", "warning"}, Quiet(kind)
    PROVE  /\ rows \in UserRows
           /\ answer.got.profile = rows.profile /\ answer.got.accounts = rows.accounts
           /\ answer.got.debts = rows.debts /\ answer.got.goals = rows.goals
           /\ Snapshot(answer.got) = Snapshot(rows)
<1>1. answer # None /\ answer.kind = kind /\ ~answer.torn
    BY DEF Quiet
<1>2. DOMAIN answer.got = {"profile", "accounts", "debts", "goals"}
    BY <1>1, TablesOfSnapshot DEF HouseholdInv, ReadInv
<1>3. /\ answer.got.profile = rows.profile /\ answer.got.accounts = rows.accounts
      /\ answer.got.debts = rows.debts /\ answer.got.goals = rows.goals
    BY <1>1, <1>2 DEF HouseholdInv, ReadInv
<1>4. Snapshot(answer.got) = Snapshot(rows)
    BY <1>3 DEF Snapshot
<1>. QED
    BY <1>3, <1>4 DEF HouseholdInv, TypeOK
------------------------------------------------------------------------------
(* Snapshots *)

\* A user's accounts: finitely many, and each a row.
LEMMA BookType ==
    ASSUME NEW accounts \in [AccountId -> AccountType \cup {NoRow}]
    PROVE  /\ IsFiniteSet(DOMAIN Book(accounts)) /\ DOMAIN Book(accounts) = Existing(accounts)
           /\ \A i \in DOMAIN Book(accounts) :
                 /\ i \in AccountId /\ Book(accounts)[i] = accounts[i]
                 /\ Book(accounts)[i] \in AccountType /\ Book(accounts)[i].balance \in Int
           /\ Liabilities(Book(accounts)) \subseteq DOMAIN Book(accounts)
           /\ Owned(Book(accounts)) \subseteq DOMAIN Book(accounts)
<1>1. IsFiniteSet(AccountId)
    BY HouseholdAssumption
<1>2. DOMAIN Book(accounts) = Existing(accounts) /\ Existing(accounts) \subseteq AccountId
    BY DEF Book, Existing
<1>3. IsFiniteSet(Existing(accounts))
    BY <1>1, <1>2, FS_Subset
<1>4. \A i \in Existing(accounts) :
          Book(accounts)[i] = accounts[i] /\ accounts[i] \in AccountType
    BY DEF Book, Existing
<1>5. \A row \in AccountType : row.balance \in Int
    BY DEF AccountType
<1>. QED
    BY <1>2, <1>3, <1>4, <1>5 DEF Liabilities, Owned

\* The balances of some of a book's accounts are a column of whole amounts.
LEMMA BalanceType ==
    ASSUME NEW book, IsFiniteSet(DOMAIN book), \A i \in DOMAIN book : book[i].balance \in Int,
           NEW S \in SUBSET DOMAIN book
    PROVE  IsFiniteSet(S) /\ Balance(book, S) \in Int
<1>. DEFINE f == [i \in DOMAIN book |-> book[i].balance]
<1>1. IsFiniteSet(S) /\ \A i \in S : f[i] \in Int
    BY FS_Subset
<1>2. SumOver(f, S) \in Int
    <2>. HIDE DEF f
    <2>. QED
        BY <1>1, SumInt
<1>. QED
    BY <1>1, <1>2 DEF Balance

\* The figures of a snapshot the properties speak of, and where they come from.
LEMMA SnapshotFigures ==
    ASSUME NEW got
    PROVE  LET s == Snapshot(got)
               book == Book(got.accounts)
           IN  /\ s.monthlyExpenses =
                    (IF got.profile = NoRow THEN NoProfile ELSE got.profile).monthlyExpenses
               /\ s.totalAssets = Balance(book, Owned(book))
               /\ s.totalLiabilities = Balance(book, Liabilities(book))
               /\ s.netWorth = s.totalAssets - s.totalLiabilities
               /\ s.liquidAssets = Balance(book, Liquid(book))
               /\ s.emergencyFund = Balance(book, Held(book, "cash"))
               /\ s.investmentAssets = Balance(book, Held(book, "equity") \cup Held(book, "debt"))
               /\ s.goalSlippage = {Slippage(got.goals[i]) : i \in Existing(got.goals)}
BY DEF Snapshot, EmergencyFund

\* The retirement figures depend on the profile and on the investments only.
LEMMA RetirementFigures ==
    ASSUME NEW p \in ProfileType, NEW investments \in Int
    PROVE  LET age == AgeFromDob(p.age)
               retirement == ComputeRetirement(Over(
                   [retirementAge |-> Larger(age + 1, RetirementDefaults.retirementAge),
                    age |-> age, expenses |-> 12 * p.monthlyExpenses, corpus |-> investments],
                   RetirementDefaults))
           IN  retirement.requiredCorpus \in Int /\ retirement.corpusGap \in Int
<1>. DEFINE age == AgeFromDob(p.age)
            own == [retirementAge |-> Larger(age + 1, RetirementDefaults.retirementAge),
                    age |-> age, expenses |-> 12 * p.monthlyExpenses, corpus |-> investments]
            input == Over(own, RetirementDefaults)
<1>1. age \in Int
    BY HouseholdAssumption DEF AgeFromDob, ProfileType
<1>2. p.monthlyExpenses \in Int /\ RetirementDefaults.retirementAge \in Int
    BY HouseholdAssumption DEF ProfileType
<1>. HIDE DEF age
<1>3. /\ DOMAIN own = {"retirementAge", "age", "expenses", "corpus"}
      /\ own.retirementAge \in Int /\ own.age \in Int /\ own.expenses \in Int
      /\ own.corpus \in Int
    BY <1>1, <1>2 DEF Larger
<1>. HIDE DEF own
<1>4. input \in Retirement
    BY <1>3, HouseholdAssumption DEF Retirement, Over
<1>. HIDE DEF input
<1>5. ComputeRetirement(input).requiredCorpus \in Int /\ ComputeRetirement(input).corpusGap \in Int
    BY <1>4, RetirementType
<1>. QED
    BY <1>5 DEF input, own, age

\* What assemble hands to the scores is what they are defined for.
LEMMA SnapshotType ==
    ASSUME NEW got,
           got.profile \in ProfileType \cup {NoRow},
           got.accounts \in [AccountId -> AccountType \cup {NoRow}]
    PROVE  ToScoreInput(Snapshot(got)) \in ScoreInput
<1>. DEFINE p == IF got.profile = NoRow THEN NoProfile ELSE got.profile
            book == Book(got.accounts)
            s == Snapshot(got)
<1>1. p \in ProfileType
    BY DEF NoProfile, ProfileType, CurrencyCode, RiskTolerance
<1>2. /\ IsFiniteSet(DOMAIN book) /\ \A i \in DOMAIN book : book[i].balance \in Int
      /\ Liabilities(book) \subseteq DOMAIN book /\ Owned(book) \subseteq DOMAIN book
    BY BookType
<1>3. \A c : Held(book, c) \subseteq DOMAIN book
    BY <1>2 DEF Held
<1>. HIDE DEF book, p
<1>4. \A S \in SUBSET DOMAIN book : Balance(book, S) \in Int
    BY <1>2, BalanceType
<1>5. Held(book, "equity") \cup Held(book, "debt") \in SUBSET DOMAIN book
    BY <1>3
<1>6. /\ Balance(book, Owned(book)) \in Int /\ Balance(book, Liabilities(book)) \in Int
      /\ Balance(book, Held(book, "cash")) \in Int
      /\ Balance(book, Held(book, "equity") \cup Held(book, "debt")) \in Int
    BY <1>2, <1>3, <1>4, <1>5
<1>7. /\ s.totalAssets \in Int /\ s.totalLiabilities \in Int /\ s.emergencyFund \in Int
      /\ s.investmentAssets \in Int
    BY <1>6, SnapshotFigures DEF book
<1>8. /\ s.monthlyExpenses = p.monthlyExpenses /\ s.annualIncome = p.annualIncome
      /\ s.existingLifeCover = p.existingLifeCover
      /\ s.hasHealthInsurance = p.hasHealthInsurance
    BY DEF Snapshot, p
<1>9. /\ s.monthlyExpenses \in Int /\ s.annualIncome \in Int /\ s.existingLifeCover \in Int
      /\ s.hasHealthInsurance \in BOOLEAN
    BY <1>1, <1>8 DEF ProfileType
<1>10. s.retirementRequiredCorpus \in Int /\ s.retirementCorpusGap \in Int
    <2>. DEFINE investments == Balance(book, Held(book, "equity") \cup Held(book, "debt"))
                age == AgeFromDob(p.age)
                retirement == ComputeRetirement(Over(
                   [retirementAge |-> Larger(age + 1, RetirementDefaults.retirementAge),
                    age |-> age, expenses |-> 12 * p.monthlyExpenses, corpus |-> investments],
                   RetirementDefaults))
    <2>1. investments \in Int
        BY <1>6
    <2>2. retirement.requiredCorpus \in Int /\ retirement.corpusGap \in Int
        <3>. HIDE DEF investments
        <3>. QED
            BY <1>1, <2>1, RetirementFigures
    <2>3. /\ s.retirementRequiredCorpus = retirement.requiredCorpus
          /\ s.retirementCorpusGap = retirement.corpusGap
        BY DEF Snapshot, p, book
    <2>. QED
        BY <2>2, <2>3
<1>. HIDE DEF s
<1>11. ToScoreInput(s) \in ScoreInput
    BY <1>7, <1>9, <1>10 DEF ToScoreInput, ScoreInput
<1>. QED
    BY <1>11 DEF s
------------------------------------------------------------------------------
(* The properties *)

\* The assets, liabilities and net worth the coach names are those of the
\* net-worth page, while liabilities are recorded as positive balances
\* (assemble against computeNetWorth).
LEMMA FiguresOfCoach ==
    ASSUME HouseholdInv
    PROVE  FiguresAgree
<1>. DEFINE book == Book(rows.accounts)
            s == Snapshot(rows)
<1>1. SUFFICES ASSUME Quiet("coach"),
                      \A i \in Existing(rows.accounts) :
                          rows.accounts[i].isLiability => rows.accounts[i].balance >= 0
               PROVE  /\ Said.netWorth = ComputeNetWorth(book).netWorth
                      /\ Said.assets = ComputeNetWorth(book).assets
                      /\ Said.liabilities = ComputeNetWorth(book).liabilities
    BY DEF FiguresAgree
<1>2. Snapshot(answer.got) = s /\ rows.accounts \in [AccountId -> AccountType \cup {NoRow}]
    BY <1>1, QuietReads DEF UserRows
<1>3. Said = Context(s)
    <2>1. answer.kind = "coach"
        BY <1>1 DEF Quiet
    <2>. QED
        BY <1>2, <2>1 DEF Said, Report
<1>4. /\ Said.netWorth = s.netWorth /\ Said.assets = s.totalAssets
      /\ Said.liabilities = s.totalLiabilities
    BY <1>3 DEF Context
<1>5. /\ s.netWorth = s.totalAssets - s.totalLiabilities
      /\ s.totalAssets = Balance(book, Owned(book))
      /\ s.totalLiabilities = Balance(book, Liabilities(book))
    BY SnapshotFigures
<1>6. Balance(book, Liabilities(book)) = Owed(book)
    <2>1. /\ IsFiniteSet(DOMAIN book) /\ Liabilities(book) \subseteq DOMAIN book
          /\ \A i \in DOMAIN book : /\ book[i].balance \in Int /\ i \in Existing(rows.accounts)
                                    /\ book[i] = rows.accounts[i]
        BY <1>2, BookType
    <2>2. \A i \in Liabilities(book) : book[i].balance >= 0
        BY <1>1, <2>1 DEF Liabilities
    <2>. DEFINE f == [i \in DOMAIN book |-> book[i].balance]
                g == [i \in DOMAIN book |-> Magnitude(book[i].balance)]
    <2>. HIDE DEF book, s
    <2>3. \A i \in Liabilities(book) : f[i] \in Int /\ f[i] = g[i]
        BY <2>1, <2>2 DEF Magnitude
    <2>4. IsFiniteSet(Liabilities(book))
        BY <2>1, FS_Subset
    <2>5. SumOver(f, Liabilities(book)) = SumOver(g, Liabilities(book))
        <3>. HIDE DEF f, g
        <3>. QED
            BY <2>3, <2>4, SumEqual
    <2>. QED
        BY <2>5 DEF Balance, Owed
<1>. HIDE DEF book, s
<1>. QED
    BY <1>4, <1>5, <1>6 DEF ComputeNetWorth

\* The coach names the assets, liabilities and net worth that computeNetWorth gives
\* of the same rows, whatever rows there are and however requests interleave.
THEOREM CoachNamesThePagesFigures == Spec => []FiguresAgree
    BY HouseholdInvariant, FiguresOfCoach, PTL

\* Where nothing is overdrawn, cash is part of what is liquid, that of the assets,
\* cash and investments are apart, and the classes add up to no more than the assets.
LEMMA TotalsOfRows ==
    ASSUME rows \in UserRows
    PROVE  TotalsNest
<1>. DEFINE book == Book(rows.accounts)
            s == Snapshot(rows)
            values == ValuesByClass(book)
            f == [i \in DOMAIN book |-> book[i].balance]
            invested == Held(book, "equity") \cup Held(book, "debt")
<1>1. SUFFICES ASSUME \A i \in Existing(rows.accounts) : rows.accounts[i].balance >= 0
               PROVE  /\ s.emergencyFund <= s.liquidAssets /\ s.liquidAssets <= s.totalAssets
                      /\ s.emergencyFund + s.investmentAssets <= s.totalAssets
                      /\ SumOver(values, DOMAIN values) <= s.totalAssets
    BY DEF TotalsNest
<1>2. /\ IsFiniteSet(DOMAIN book) /\ Owned(book) \subseteq DOMAIN book
      /\ \A i \in DOMAIN book : book[i].balance \in Nat /\ book[i] \in AccountType
    <2>1. rows.accounts \in [AccountId -> AccountType \cup {NoRow}]
        BY DEF UserRows
    <2>. QED
        BY <1>1, <2>1, BookType
<1>3. /\ s.emergencyFund = Balance(book, Held(book, "cash"))
      /\ s.liquidAssets = Balance(book, Liquid(book))
      /\ s.totalAssets = Balance(book, Owned(book))
      /\ s.investmentAssets = Balance(book, invested)
    BY SnapshotFigures
<1>. HIDE DEF s, book
<1>4. \A i \in DOMAIN book : f[i] \in Nat /\ f[i] \in Int
    BY <1>2
<1>. HIDE DEF f
<1>5. /\ Held(book, "cash") \subseteq Liquid(book) /\ Liquid(book) \subseteq Owned(book)
      /\ invested \subseteq Owned(book) /\ Held(book, "cash") \subseteq Owned(book)
      /\ Held(book, "cash") \cap invested = {}
    BY DEF Held, Liquid
<1>. HIDE DEF invested
<1>6. \A S \in SUBSET DOMAIN book : IsFiniteSet(S) /\ Balance(book, S) = SumOver(f, S)
    BY <1>2, FS_Subset DEF Balance, f
<1>7. ASSUME NEW R \in SUBSET DOMAIN book, NEW S \in SUBSET DOMAIN book, R \subseteq S
      PROVE  Balance(book, R) <= Balance(book, S)
    <2>1. SumOver(f, R) <= SumOver(f, S)
        <3>1. R \in SUBSET S /\ IsFiniteSet(S)
            BY <1>6, <1>7
        <3>2. (\A i \in R : f[i] \in Int) /\ (\A i \in S \ R : f[i] \in Nat)
            BY <1>4
        <3>. QED
            BY <3>1, <3>2, SumSubset
    <2>. QED
        BY <1>6, <2>1
<1>8. s.emergencyFund <= s.liquidAssets /\ s.liquidAssets <= s.totalAssets
    BY <1>2, <1>3, <1>5, <1>7
<1>9. s.emergencyFund + s.investmentAssets <= s.totalAssets
    <2>1. /\ Held(book, "cash") \in SUBSET DOMAIN book /\ invested \in SUBSET DOMAIN book
          /\ Held(book, "cash") \cup invested \in SUBSET DOMAIN book
          /\ Owned(book) \in SUBSET DOMAIN book
          /\ Held(book, "cash") \cup invested \subseteq Owned(book)
        BY <1>2, <1>5
    <2>2. SumOver(f, Held(book, "cash") \cup invested)
            = SumOver(f, Held(book, "cash")) + SumOver(f, invested)
        <3>1. /\ IsFiniteSet(Held(book, "cash")) /\ IsFiniteSet(invested)
              /\ \A i \in Held(book, "cash") \cup invested : f[i] \in Int
            BY <1>4, <1>6, <2>1
        <3>. QED
            BY <1>5, <3>1, SumDisjoint
    <2>3. Balance(book, Held(book, "cash") \cup invested) <= Balance(book, Owned(book))
        BY <1>7, <2>1
    <2>4. Balance(book, Held(book, "cash") \cup invested)
            = Balance(book, Held(book, "cash")) + Balance(book, invested)
        BY <1>6, <2>1, <2>2
    <2>. QED
        BY <1>3, <2>3, <2>4
<1>10. SumOver(values, DOMAIN values) <= s.totalAssets
    <2>. DEFINE S == Owned(book)
                class == [i \in S |-> book[i].assetClass]
                C == {book[i].assetClass : i \in S} \ {NoClass}
    <2>1. IsFiniteSet(S) /\ S \in SUBSET DOMAIN book
        BY <1>2, FS_Subset
    <2>2. IsFiniteSet(C)
        <3>. DEFINE all == {book[i].assetClass : i \in S}
        <3>1. class \in Surjection(S, all)
            BY DEF Surjection
        <3>2. IsFiniteSet(all)
            <4>. HIDE DEF all, class, S
            <4>. QED
                BY <2>1, <3>1, FS_Surjection
        <3>3. C \subseteq all
            OBVIOUS
        <3>. HIDE DEF all, C
        <3>. QED
            BY <3>2, <3>3, FS_Subset
    <2>3. /\ DOMAIN values = C
          /\ \A c \in C : values[c] = SumOver(f, {i \in S : class[i] = c})
        <3>1. DOMAIN values = C /\ \A c \in C : values[c] = Balance(book, Held(book, c))
            BY DEF ValuesByClass
        <3>2. ASSUME NEW c PROVE Held(book, c) = {i \in S : class[i] = c}
            BY DEF Held
        <3>3. ASSUME NEW c PROVE Held(book, c) \in SUBSET DOMAIN book
            BY <2>1 DEF Held
        <3>. HIDE DEF C, class, S, values
        <3>. QED
            BY <1>6, <3>1, <3>2, <3>3
    <2>. DEFINE sorted == {i \in S : class[i] \in C}
    <2>4. \A i \in S : f[i] \in Int
        BY <1>4, <2>1
    <2>. HIDE DEF S, class, C, values
    <2>5. SumOver(values, C) = SumOver(f, sorted)
        BY <2>1, <2>2, <2>3, <2>4, SumByClass
    <2>6. sorted \in SUBSET DOMAIN book /\ sorted \subseteq S
        BY <2>1
    <2>7. Balance(book, sorted) <= Balance(book, S)
        BY <1>7, <2>1, <2>6
    <2>. HIDE DEF sorted
    <2>8. SumOver(f, sorted) = Balance(book, sorted)
        BY <1>6, <2>6
    <2>9. SumOver(values, DOMAIN values) <= Balance(book, S)
        BY <2>3, <2>5, <2>7, <2>8
    <2>. QED
        BY <1>3, <2>9 DEF S
<1>. QED
    BY <1>8, <1>9, <1>10

\* Whatever accounts are held, assemble counts no amount twice: emergency fund,
\* liquid, investment and total assets nest, as long as none is overdrawn.
THEOREM NothingCountsTwice == Spec => []TotalsNest
<1>1. HouseholdInv => TotalsNest
    BY TotalsOfRows DEF HouseholdInv, TypeOK
<1>. QED
    BY <1>1, HouseholdInvariant, PTL

\* An action that is not below green is not urged, whatever the order of the others.
LEMMA GreenIsNotUrged ==
    ASSUME NEW report, \A k \in ScoreKey : report.score[k] \in Int,
           BandFor(report.score["emergency_fund"]) = "green"
    PROVE  "emergency_fund" \notin ToSet(TopWealthActions(report))
<1>. DEFINE weak == {n \in DOMAIN ScoreKeys : BandFor(report.score[ScoreKeys[n]]) # "green"}
            urgent(n) == Len(ScoreKeys) * report.score[ScoreKeys[n]] + n
            keys == {urgent(m) : m \in weak}
            place(i) == CHOOSE n \in weak : urgent(n) = Nth(keys, i)
            many == Smaller(10, Cardinality(weak))
<1>1. TopWealthActions(report) = [i \in 1..many |-> ScoreKeys[place(i)]]
    BY DEF TopWealthActions
<1>2. /\ Len(ScoreKeys) = 5 /\ DOMAIN ScoreKeys = 1..5
      /\ ScoreKeys[1] = "emergency_fund"
      /\ \A n \in 2..5 : ScoreKeys[n] # "emergency_fund"
      /\ \A n \in 1..5 : ScoreKeys[n] \in ScoreKey
    <2>1. Len(ScoreKeys) = 5 /\ DOMAIN ScoreKeys = 1..5
        BY DEF ScoreKeys
    <2>2. /\ ScoreKeys[1] = "emergency_fund" /\ ScoreKeys[2] = "protection"
          /\ ScoreKeys[3] = "investments" /\ ScoreKeys[4] = "retirement"
          /\ ScoreKeys[5] = "debt"
        BY DEF ScoreKeys
    <2>3. \A n \in 1..5 : n \in {1, 2, 3, 4, 5}
        OBVIOUS
    <2>. QED
        BY <2>1, <2>2, <2>3, ScoreKeySet
<1>3. weak \subseteq 2..5
    <2>1. ASSUME NEW n \in weak PROVE n \in 1..5 /\ n # 1
        BY <1>2
    <2>. QED
        BY <2>1
<1>4. \A n \in weak : report.score[ScoreKeys[n]] \in Int /\ n \in 1..5
    BY <1>2, <1>3
<1>5. \A n \in weak : urgent(n) \in Int
    BY <1>2, <1>4
<1>6. \A m, n \in weak : urgent(m) = urgent(n) => m = n
    <2>1. ASSUME NEW a \in Int, NEW b \in Int, NEW m \in 1..5, NEW n \in 1..5,
                 5 * a + m = 5 * b + n
          PROVE  m = n
        BY <2>1
    <2>. QED
        BY <1>2, <1>4, <2>1
<1>7. IsFiniteSet(weak)
    <2>1. IsFiniteSet(2..5)
        <3>1. PICK a \in Int, b \in Int : a = 2 /\ b = 5
            OBVIOUS
        <3>2. IsFiniteSet(a..b)
            BY FS_Interval
        <3>. QED
            BY <3>1, <3>2
    <2>. QED
        BY <1>3, <2>1, FS_Subset
<1>. HIDE DEF weak
<1>8. /\ IsFiniteSet(keys) /\ Cardinality(keys) = Cardinality(weak) /\ keys \subseteq Int
      /\ Cardinality(weak) \in Nat
    <2>. DEFINE g == [n \in weak |-> urgent(n)]
    <2>1. g \in Bijection(weak, keys)
        <3>. HIDE DEF urgent
        <3>1. g \in [weak -> keys]
            OBVIOUS
        <3>2. \A m, n \in weak : m # n => g[m] # g[n]
            BY <1>6
        <3>3. \A k \in keys : \E n \in weak : g[n] = k
            OBVIOUS
        <3>. QED
            BY <3>1, <3>2, <3>3 DEF Bijection, Injection, Surjection, IsInjective
    <2>2. keys \subseteq Int
        BY <1>5
    <2>. HIDE DEF g, keys
    <2>3. IsFiniteSet(keys) /\ Cardinality(keys) = Cardinality(weak)
        BY <1>7, <2>1, FS_Bijection DEF ExistsBijection
    <2>. QED
        BY <1>7, <2>2, <2>3, FS_CardinalityType
<1>9. \A i \in 1..many : place(i) \in weak
    <2>1. ASSUME NEW i \in 1..many PROVE \E n \in weak : urgent(n) = Nth(keys, i)
        <3>1. i \in 1..Cardinality(keys)
            BY <1>8 DEF Smaller
        <3>. HIDE DEF keys
        <3>2. Nth(keys, i) \in keys
            BY <1>8, <3>1, NthExact
        <3>. QED
            BY <3>2 DEF keys
    <2>. HIDE DEF keys, urgent, many
    <2>. QED
        BY <2>1
<1>. HIDE DEF place, many, keys, urgent
<1>10. \A i \in 1..many : TopWealthActions(report)[i] # "emergency_fund"
    BY <1>1, <1>2, <1>3, <1>9
<1>. QED
    BY <1>1, <1>10 DEF ToSet

\* The warnings contradict neither the coach nor the goal list.
LEMMA WarningsOfRows ==
    ASSUME HouseholdInv
    PROVE  WarningsAgree
<1>. DEFINE s == Snapshot(rows)
            fund == s.emergencyFund
            expenses == s.monthlyExpenses
            signal == Said.signal
            coach == Context(s)
            health == ComputeWealthHealth(ToScoreInput(s))
<1>1. SUFFICES ASSUME Quiet("warning")
               PROVE  /\ Rank(BandFor(coach.score.emergency_fund)) <= Rank(signal.emergency_fund)
                      /\ signal.emergency_fund = "green" =>
                            "emergency_fund" \notin ToSet(coach.actions)
                      /\ (signal.goal_slippage = "green") =
                            (\A i \in Existing(rows.goals) : rows.goals[i].target > 0 =>
                                20 * Plan(rows.goals[i]).gap < 3 * rows.goals[i].target)
    BY DEF WarningsAgree
<1>2. Snapshot(answer.got) = s /\ rows \in UserRows
    BY <1>1, QuietReads
<1>3. Said = ComputeEarlyWarning(ToEarlyWarningInput(s))
    <2>1. answer.kind = "warning"
        BY <1>1 DEF Quiet
    <2>. QED
        BY <1>2, <2>1 DEF Said, Report
<1>4. /\ signal.emergency_fund = Cover(fund, expenses)
      /\ signal.goal_slippage =
            Light(\E g \in s.goalSlippage : 10 * g.n >= 3 * g.d,
                  \E g \in s.goalSlippage : 20 * g.n >= 3 * g.d)
    BY <1>3 DEF ComputeEarlyWarning, ToEarlyWarningInput, GoalSlippage
<1>5. coach.score = health.score /\ coach.actions = TopWealthActions(health)
    BY DEF Context
<1>6. ToScoreInput(s) \in ScoreInput
    BY <1>2, SnapshotType DEF UserRows
<1>7. /\ health.score.emergency_fund = EmergencyScore(ToScoreInput(s))
      /\ \A k \in ScoreKey : health.score[k] \in Int
    <2>1. PICK input \in ScoreInput : input = ToScoreInput(s)
        BY <1>6
    <2>2. health = ComputeWealthHealth(input)
        BY <2>1
    <2>. HIDE DEF s, health
    <2>3. /\ ComputeWealthHealth(input).score.emergency_fund = EmergencyScore(input)
          /\ \A k \in ScoreKey : ComputeWealthHealth(input).score[k] \in 0..100
        BY ReportScores
    <2>. QED
        BY <2>1, <2>2, <2>3
<1>8. /\ ToScoreInput(s).emergencyFund = fund /\ ToScoreInput(s).monthlyExpenses = expenses
      /\ fund \in Int /\ expenses \in Int
    BY <1>6 DEF ToScoreInput, ScoreInput
<1>. HIDE DEF fund, expenses, health, s
<1>9. Rank(BandFor(coach.score.emergency_fund)) <= Rank(signal.emergency_fund)
    BY <1>4, <1>5, <1>7, <1>8, CoverAgrees
<1>10. ASSUME signal.emergency_fund = "green"
       PROVE  "emergency_fund" \notin ToSet(coach.actions)
    <2>1. BandFor(health.score.emergency_fund) = "green"
        <3>1. health.score.emergency_fund \in Int
            BY <1>7, ScoreKeySet
        <3>2. BandFor(health.score.emergency_fund) \in Band
            BY <3>1 DEF BandFor, Band
        <3>. QED
            BY <1>5, <1>9, <1>10, <3>2 DEF Rank, Band
    <2>. QED
        BY <1>5, <1>7, <2>1, GreenIsNotUrged
<1>11. (signal.goal_slippage = "green") =
            (\A i \in Existing(rows.goals) : rows.goals[i].target > 0 =>
                20 * Plan(rows.goals[i]).gap < 3 * rows.goals[i].target)
    <2>. DEFINE behind(g) == 20 * g.n >= 3 * g.d
    <2>1. s.goalSlippage = {Slippage(rows.goals[i]) : i \in Existing(rows.goals)}
        BY SnapshotFigures DEF s
    <2>2. ASSUME NEW i \in Existing(rows.goals)
          PROVE  /\ 10 * Slippage(rows.goals[i]).n >= 3 * Slippage(rows.goals[i]).d =>
                        behind(Slippage(rows.goals[i]))
                 /\ behind(Slippage(rows.goals[i])) <=>
                        /\ rows.goals[i].target > 0
                        /\ ~(20 * Plan(rows.goals[i]).gap < 3 * rows.goals[i].target)
        <3>1. rows.goals[i] \in GoalType
            BY <1>2 DEF UserRows, Existing
        <3>2. PICK gap \in Nat, target \in Int :
                  gap = Plan(rows.goals[i]).gap /\ target = rows.goals[i].target
            BY <3>1, GapType DEF GoalType
        <3>3. Slippage(rows.goals[i]) = IF target > 0 THEN [n |-> gap, d |-> target]
                                        ELSE [n |-> 0, d |-> 1]
            BY <3>2 DEF Slippage
        <3>4. CASE target > 0
            <4>1. Slippage(rows.goals[i]).n = gap /\ Slippage(rows.goals[i]).d = target
                BY <3>3, <3>4
            <4>. QED
                BY <3>2, <3>4, <4>1
        <3>5. CASE ~(target > 0)
            <4>1. Slippage(rows.goals[i]).n = 0 /\ Slippage(rows.goals[i]).d = 1
                BY <3>3, <3>5
            <4>. QED
                BY <3>2, <3>5, <4>1
        <3>. QED
            BY <3>4, <3>5
    <2>3. signal.goal_slippage = "green" <=>
              /\ ~ \E g \in s.goalSlippage : 10 * g.n >= 3 * g.d
              /\ ~ \E g \in s.goalSlippage : behind(g)
        BY <1>4 DEF Light
    <2>. HIDE DEF behind
    <2>4. signal.goal_slippage = "green" <=>
              \A i \in Existing(rows.goals) : ~ behind(Slippage(rows.goals[i]))
        BY <2>1, <2>2, <2>3
    <2>. QED
        BY <2>2, <2>4
<1>. QED
    BY <1>9, <1>10, <1>11

\* The warnings of earlyWarning.ts contradict neither the scores of the coach nor
\* the goal list, whatever rows they are drawn from.
THEOREM WarningsContradictNothing == Spec => []WarningsAgree
    BY HouseholdInvariant, WarningsOfRows, PTL

\* A new balance of one account changes the sums it is part of by the difference.
LEMMA BalanceChanged ==
    ASSUME NEW accounts \in [AccountId -> AccountType \cup {NoRow}],
           NEW i \in Existing(accounts), NEW b \in Int
    PROVE  LET later == [accounts EXCEPT ![i].balance = b]
               book  == Book(accounts)
               book2 == Book(later)
           IN  /\ later \in [AccountId -> AccountType \cup {NoRow}]
               /\ DOMAIN book2 = DOMAIN book
               /\ Liabilities(book2) = Liabilities(book) /\ Owned(book2) = Owned(book)
               /\ \A c : Held(book2, c) = Held(book, c)
               /\ \A S \in SUBSET DOMAIN book :
                     Balance(book2, S) = IF i \in S THEN Balance(book, S) + (b - book[i].balance)
                                         ELSE Balance(book, S)
<1>. DEFINE later == [accounts EXCEPT ![i].balance = b]
            book  == Book(accounts)
            book2 == Book(later)
            f == [k \in DOMAIN book |-> book[k].balance]
            g == [k \in DOMAIN book2 |-> book2[k].balance]
<1>1. i \in AccountId /\ accounts[i] \in AccountType /\ accounts[i] # NoRow
    BY DEF Existing
<1>2. /\ later \in [AccountId -> AccountType \cup {NoRow}]
      /\ later[i] = [accounts[i] EXCEPT !.balance = b] /\ later[i] \in AccountType
      /\ \A k \in AccountId \ {i} : later[k] = accounts[k]
    BY <1>1 DEF AccountType
<1>3. Existing(later) = Existing(accounts)
    BY <1>1, <1>2, HouseholdAssumption DEF Existing
<1>. HIDE DEF later
<1>4. /\ DOMAIN book2 = DOMAIN book /\ DOMAIN book = Existing(accounts)
      /\ DOMAIN book \subseteq AccountId
      /\ \A k \in DOMAIN book \ {i} : book2[k] = book[k]
      /\ book2[i].balance = b /\ book2[i].isLiability = book[i].isLiability
      /\ book2[i].assetClass = book[i].assetClass /\ i \in DOMAIN book
    <2>1. DOMAIN book = Existing(accounts) /\ DOMAIN book2 = Existing(later)
        BY DEF Book
    <2>2. \A k \in Existing(accounts) : book[k] = accounts[k] /\ book2[k] = later[k]
        BY <1>3 DEF Book
    <2>3. /\ later[i].balance = b /\ later[i].isLiability = accounts[i].isLiability
          /\ later[i].assetClass = accounts[i].assetClass
        BY <1>1, <1>2 DEF AccountType
    <2>4. Existing(accounts) \subseteq AccountId
        BY DEF Existing
    <2>. HIDE DEF book, book2
    <2>. QED
        BY <1>2, <1>3, <2>1, <2>2, <2>3, <2>4
<1>5. IsFiniteSet(DOMAIN book) /\ \A k \in DOMAIN book : book[k].balance \in Int
    BY BookType
<1>. HIDE DEF book, book2
<1>6. \A k \in DOMAIN book : /\ book2[k].isLiability = book[k].isLiability
                             /\ book2[k].assetClass = book[k].assetClass
    BY <1>4
<1>7. Liabilities(book2) = Liabilities(book) /\ Owned(book2) = Owned(book)
    BY <1>4, <1>6 DEF Liabilities, Owned
<1>8. \A c : Held(book2, c) = Held(book, c)
    BY <1>6, <1>7 DEF Held, Owned
<1>9. ASSUME NEW S \in SUBSET DOMAIN book
      PROVE  Balance(book2, S) = IF i \in S THEN Balance(book, S) + (b - book[i].balance)
                                 ELSE Balance(book, S)
    <2>1. PICK more \in Int : more = b - book[i].balance
        BY <1>4, <1>5
    <2>2. \A k \in S : f[k] \in Int /\ g[k] = IF k = i THEN f[k] + more ELSE f[k]
        <3>1. ASSUME NEW k \in S
              PROVE  f[k] \in Int /\ g[k] = IF k = i THEN f[k] + more ELSE f[k]
            <4>1. /\ k \in DOMAIN book /\ f[k] = book[k].balance /\ g[k] = book2[k].balance
                  /\ book[k].balance \in Int
                BY <1>4, <1>5
            <4>. HIDE DEF f, g
            <4>2. CASE k = i
                BY <1>4, <2>1, <4>1, <4>2
            <4>3. CASE k # i
                BY <1>4, <4>1, <4>3
            <4>. QED
                BY <4>2, <4>3
        <3>. QED
            BY <3>1
    <2>3. IsFiniteSet(S)
        BY <1>5, FS_Subset
    <2>. HIDE DEF f, g
    <2>4. /\ i \in S => SumOver(g, S) = SumOver(f, S) + more
          /\ i \notin S => SumOver(g, S) = SumOver(f, S)
        <3>1. /\ \A k \in S : f[k] \in Int
              /\ \A k \in S \ {i} : g[k] = f[k]
              /\ i \in S => g[i] = f[i] + more
            BY <2>2
        <3>2. CASE i \in S
            <4>1. SumOver(g, S) = SumOver(f, S) + more
                BY <2>3, <3>1, <3>2, SumChanged
            <4>. QED
                BY <3>2, <4>1
        <3>3. CASE i \notin S
            <4>1. SumOver(g, S) = SumOver(f, S)
                BY <2>3, <3>1, <3>3, SumChanged
            <4>. QED
                BY <3>3, <4>1
        <3>. QED
            BY <3>2, <3>3
    <2>. QED
        BY <2>1, <2>4 DEF Balance, f, g
<1>. QED
    BY <1>2, <1>4, <1>7, <1>8, <1>9 DEF later, book, book2

\* A deposit into cash: what the scores are given before and after it.
LEMMA DepositFigures ==
    ASSUME rows \in UserRows, NEW i \in Existing(rows.accounts), NEW b \in Int,
           rows.accounts[i].assetClass = "cash", ~rows.accounts[i].isLiability
    PROVE  LET s == ToScoreInput(Snapshot(rows))
               t == ToScoreInput(Snapshot([rows EXCEPT !.accounts[i].balance = b]))
               more == b - rows.accounts[i].balance
           IN  /\ t \in ScoreInput
               /\ t.emergencyFund = s.emergencyFund + more
               /\ t.totalAssets = s.totalAssets + more
               /\ \A k \in {"monthlyExpenses", "annualIncome", "existingLifeCover",
                            "hasHealthInsurance", "investmentAssets", "totalLiabilities",
                            "retirementCorpusGap", "retirementRequiredCorpus"} : t[k] = s[k]
<1>. DEFINE rows2 == [rows EXCEPT !.accounts[i].balance = b]
            later == [rows.accounts EXCEPT ![i].balance = b]
            book  == Book(rows.accounts)
            book2 == Book(rows2.accounts)
            more  == b - rows.accounts[i].balance
            invested(bk) == Held(bk, "equity") \cup Held(bk, "debt")
            s == Snapshot(rows)
            t == Snapshot(rows2)
<1>1. /\ rows.accounts \in [AccountId -> AccountType \cup {NoRow}]
      /\ rows2.accounts = later /\ rows2.profile = rows.profile
      /\ rows.profile \in ProfileType \cup {NoRow}
    BY DEF UserRows
<1>2. /\ later \in [AccountId -> AccountType \cup {NoRow}]
      /\ DOMAIN Book(later) = DOMAIN book
      /\ Liabilities(Book(later)) = Liabilities(book) /\ Owned(Book(later)) = Owned(book)
      /\ \A c : Held(Book(later), c) = Held(book, c)
      /\ \A S \in SUBSET DOMAIN book :
            Balance(Book(later), S) = IF i \in S THEN Balance(book, S) + (b - book[i].balance)
                                      ELSE Balance(book, S)
    BY <1>1, BalanceChanged, SMTT(30)
<1>3. /\ i \in DOMAIN book /\ book[i] = rows.accounts[i]
      /\ Liabilities(book) \subseteq DOMAIN book /\ Owned(book) \subseteq DOMAIN book
    BY <1>1, BookType
<1>. HIDE DEF later, rows2
<1>4. book2 = Book(later)
    BY <1>1
<1>. HIDE DEF book2, book
<1>5. /\ i \in Owned(book) /\ i \notin Liabilities(book) /\ i \in Held(book, "cash")
      /\ i \notin invested(book) /\ Held(book, "cash") \subseteq DOMAIN book
      /\ invested(book) \subseteq DOMAIN book
    BY <1>3 DEF Owned, Liabilities, Held
<1>6. /\ Balance(book2, Held(book2, "cash")) = Balance(book, Held(book, "cash")) + more
      /\ Balance(book2, Owned(book2)) = Balance(book, Owned(book)) + more
      /\ Balance(book2, Liabilities(book2)) = Balance(book, Liabilities(book))
      /\ Balance(book2, invested(book2)) = Balance(book, invested(book))
    <2>1. /\ Held(book2, "cash") = Held(book, "cash") /\ invested(book2) = invested(book)
          /\ Owned(book2) = Owned(book) /\ Liabilities(book2) = Liabilities(book)
        BY <1>2, <1>4
    <2>2. \A S \in SUBSET DOMAIN book :
            Balance(book2, S) = IF i \in S THEN Balance(book, S) + more ELSE Balance(book, S)
        BY <1>2, <1>3, <1>4
    <2>. HIDE DEF invested, more
    <2>. QED
        BY <1>3, <1>5, <2>1, <2>2
<1>7. /\ s.emergencyFund = Balance(book, Held(book, "cash"))
      /\ t.emergencyFund = Balance(book2, Held(book2, "cash"))
      /\ s.totalAssets = Balance(book, Owned(book)) /\ t.totalAssets = Balance(book2, Owned(book2))
      /\ s.totalLiabilities = Balance(book, Liabilities(book))
      /\ t.totalLiabilities = Balance(book2, Liabilities(book2))
      /\ s.investmentAssets = Balance(book, invested(book))
      /\ t.investmentAssets = Balance(book2, invested(book2))
    BY SnapshotFigures DEF book, book2
<1>8. /\ t.monthlyExpenses = s.monthlyExpenses /\ t.annualIncome = s.annualIncome
      /\ t.existingLifeCover = s.existingLifeCover
      /\ t.hasHealthInsurance = s.hasHealthInsurance
    BY <1>1, SMTT(20) DEF Snapshot
<1>9. /\ t.retirementCorpusGap = s.retirementCorpusGap
      /\ t.retirementRequiredCorpus = s.retirementRequiredCorpus
    <2>. DEFINE figures(p, sum) == ComputeRetirement(Over(
                   [retirementAge |-> Larger(AgeFromDob(p.age) + 1,
                                             RetirementDefaults.retirementAge),
                    age |-> AgeFromDob(p.age), expenses |-> 12 * p.monthlyExpenses,
                    corpus |-> sum],
                   RetirementDefaults))
                person(r) == IF r.profile = NoRow THEN NoProfile ELSE r.profile
    <2>1. /\ s.retirementCorpusGap
                = figures(person(rows), Balance(book, invested(book))).corpusGap
          /\ s.retirementRequiredCorpus
                = figures(person(rows), Balance(book, invested(book))).requiredCorpus
        BY DEF Snapshot, book
    <2>2. /\ t.retirementCorpusGap
                = figures(person(rows2), Balance(book2, invested(book2))).corpusGap
          /\ t.retirementRequiredCorpus
                = figures(person(rows2), Balance(book2, invested(book2))).requiredCorpus
        BY DEF Snapshot, book2
    <2>3. person(rows2) = person(rows)
        BY <1>1
    <2>. HIDE DEF figures, person, invested, s, t
    <2>. QED
        BY <1>6, <2>1, <2>2, <2>3
<1>10. ToScoreInput(t) \in ScoreInput
    BY <1>1, <1>2, SnapshotType
<1>. HIDE DEF s, t, more
<1>11. /\ ToScoreInput(t).emergencyFund = ToScoreInput(s).emergencyFund + more
       /\ ToScoreInput(t).totalAssets = ToScoreInput(s).totalAssets + more
       /\ \A k \in {"monthlyExpenses", "annualIncome", "existingLifeCover",
                    "hasHealthInsurance", "investmentAssets", "totalLiabilities",
                    "retirementCorpusGap", "retirementRequiredCorpus"} :
              ToScoreInput(t)[k] = ToScoreInput(s)[k]
    BY <1>6, <1>7, <1>8, <1>9 DEF ToScoreInput
<1>. QED
    BY <1>10, <1>11 DEF s, t, more, rows2

\* A deposit into cash lowers neither the overall score nor any of its parts.
LEMMA DepositOfRows ==
    ASSUME rows \in UserRows
    PROVE  DepositNeverHurts
<1>1. SUFFICES ASSUME NEW i \in Existing(rows.accounts), NEW b \in Balances,
                      rows.accounts[i].assetClass = "cash", ~rows.accounts[i].isLiability,
                      b > rows.accounts[i].balance, Snapshot(rows).totalAssets > 0
               PROVE  LET before == Health(rows)
                          after  == Health([rows EXCEPT !.accounts[i].balance = b])
                      IN  /\ after.overall >= before.overall
                          /\ \A k \in ScoreKey : after.score[k] >= before.score[k]
    BY DEF DepositNeverHurts
<1>. DEFINE s == ToScoreInput(Snapshot(rows))
            t == ToScoreInput(Snapshot([rows EXCEPT !.accounts[i].balance = b]))
<1>2. b \in Int /\ rows.accounts[i].balance \in Int
    <2>1. rows.accounts[i] \in AccountType
        BY DEF UserRows, Existing
    <2>. QED
        BY <2>1, HouseholdAssumption DEF AccountType
<1>3. PICK more \in Nat : more = b - rows.accounts[i].balance
    BY <1>1, <1>2
<1>4. s \in ScoreInput /\ s.totalAssets > 0
    <2>1. s.totalAssets = Snapshot(rows).totalAssets
        BY DEF ToScoreInput
    <2>. QED
        BY <1>1, <2>1, SnapshotType DEF UserRows
<1>5. /\ t \in ScoreInput
      /\ t.emergencyFund = s.emergencyFund + more /\ t.totalAssets = s.totalAssets + more
      /\ \A k \in {"monthlyExpenses", "annualIncome", "existingLifeCover",
                   "hasHealthInsurance", "investmentAssets", "totalLiabilities",
                   "retirementCorpusGap", "retirementRequiredCorpus"} : t[k] = s[k]
    BY <1>1, <1>2, <1>3, DepositFigures
<1>. HIDE DEF s, t
<1>6. /\ t.monthlyExpenses = s.monthlyExpenses /\ t.annualIncome = s.annualIncome
      /\ t.existingLifeCover = s.existingLifeCover
      /\ t.hasHealthInsurance = s.hasHealthInsurance
      /\ t.investmentAssets = s.investmentAssets /\ t.totalLiabilities = s.totalLiabilities
      /\ t.retirementCorpusGap = s.retirementCorpusGap
      /\ t.retirementRequiredCorpus = s.retirementRequiredCorpus
    BY <1>5
<1>7. EmergencyScore(s) <= EmergencyScore(t) /\ DebtScore(s) <= DebtScore(t)
    <2>1. /\ s.monthlyExpenses \in Int /\ s.emergencyFund \in Int
          /\ s.totalAssets \in Nat \ {0} /\ s.totalLiabilities \in Int
        BY <1>4 DEF ScoreInput
    <2>. QED
        BY <1>5, <1>6, <2>1, DepositRaisesScores
<1>8. /\ ProtectionScore(t) = ProtectionScore(s) /\ InvestmentScore(t) = InvestmentScore(s)
      /\ RetirementScore(t) = RetirementScore(s)
    BY <1>6 DEF ProtectionScore, InvestmentScore, RetirementScore
<1>. DEFINE x == ComputeWealthHealth(s).score
            y == ComputeWealthHealth(t).score
<1>9. /\ x.emergency_fund = EmergencyScore(s) /\ x.protection = ProtectionScore(s)
      /\ x.investments = InvestmentScore(s) /\ x.retirement = RetirementScore(s)
      /\ x.debt = DebtScore(s) /\ \A k \in ScoreKey : x[k] \in Int
    <2>1. /\ x.emergency_fund = EmergencyScore(s) /\ x.protection = ProtectionScore(s)
          /\ x.investments = InvestmentScore(s) /\ x.retirement = RetirementScore(s)
          /\ x.debt = DebtScore(s) /\ \A k \in ScoreKey : x[k] \in 0..100
        BY <1>4, ReportScores
    <2>. QED
        BY <2>1
<1>10. /\ y.emergency_fund = EmergencyScore(t) /\ y.protection = ProtectionScore(t)
       /\ y.investments = InvestmentScore(t) /\ y.retirement = RetirementScore(t)
       /\ y.debt = DebtScore(t) /\ \A k \in ScoreKey : y[k] \in Int
    <2>1. /\ y.emergency_fund = EmergencyScore(t) /\ y.protection = ProtectionScore(t)
          /\ y.investments = InvestmentScore(t) /\ y.retirement = RetirementScore(t)
          /\ y.debt = DebtScore(t) /\ \A k \in ScoreKey : y[k] \in 0..100
        BY <1>5, ReportScores
    <2>. QED
        BY <2>1
<1>. HIDE DEF x, y
<1>11. \A k \in ScoreKey : x[k] <= y[k]
    BY <1>7, <1>8, <1>9, <1>10, ScoreKeySet
<1>12. \A k \in ScoreKey : y[k] >= x[k]
    BY <1>9, <1>10, <1>11
<1>13. ComputeWealthHealth(s).overall <= ComputeWealthHealth(t).overall
    BY <1>4, <1>5, <1>11, OverallFollows DEF x, y
<1>14. ComputeWealthHealth(t).overall >= ComputeWealthHealth(s).overall
    BY <1>13
<1>. QED
    BY <1>12, <1>14 DEF Health, s, t, x, y

\* A deposit into a cash account never lowers a score of computeWealthHealth, nor
\* the overall one, whatever rows the household has.
THEOREM DepositsNeverHurt == Spec => []DepositNeverHurts
<1>1. HouseholdInv => DepositNeverHurts
    BY DepositOfRows DEF HouseholdInv, TypeOK
<1>. QED
    BY <1>1, HouseholdInvariant, PTL
==============================================================================
