----------------------------- MODULE Projections -----------------------------
(***************************************************************************)
(* packages/core/src/finance: goals.ts, retirement.ts, tax.ts and          *)
(* insurance.ts.  Rates are whole percentages, a tax on gains is tenths of *)
(* a percent (125 for 12.5%), growth is an exact fraction and only the     *)
(* amounts of an answer are rounded, as fromMinor does.                    *)
(***************************************************************************)
EXTENDS Money, Sequences

NoTax == -1   \* gainsTaxPct and effectiveGainsTaxPct left out

\* netOfTaxReturnPct, in thousandths of a percent, as every net return is.
NetOfTaxReturnPct(gross, tax) == gross * (1000 - tax)
AfterTax(gross, tax) == IF tax = NoTax THEN gross * 1000 ELSE NetOfTaxReturnPct(gross, tax)

\* A net annual return as a fraction, where `whole` percent are 1.
NetRate(net, whole) ==
    LET percent == Fraction(net, 1000)
    IN  Fraction(percent.n, percent.d * whole)

\* What it earns in a month, r = percent / 100 / 12.
MonthlyRate(net) == NetRate(net, 1200)

\* The numerator and the denominator of (1 + rate)^periods.
Grown(rate, periods)   == Power(rate.d + rate.n, periods)
Ungrown(rate, periods) == Power(rate.d, periods)
------------------------------------------------------------------------------
\* What 1 saved at the end of each month is worth after the last one, times
\* Ungrown: ((1 + r)^months - 1) / r, or the number of months at no return.
\* FAULT: one instalment more is counted, as if saved at once.
AnnuityDue(rate, months) ==
    IF rate.n = 0 THEN months + 1
    ELSE ((Grown(rate, months + 1) - Ungrown(rate, months + 1)) * rate.d) \div rate.n

Annuity(rate, months) ==
    IF rate.n = 0 THEN months
    ELSE ((Grown(rate, months) - Ungrown(rate, months)) * rate.d) \div rate.n

\* steppedFirstYearSip of the target n / d: whole years of twelve level months,
\* a year's instalment 1 + step / 100 times the last one; a part year is whole.
SteppedFirstYearSip(n, d, rate, months, step) ==
    LET years == Larger(1, (months + 11) \div 12)
        rise  == Fraction(step, 100)
        worth == SumOver(
                   [k \in 0..(years - 1) |->
                        Grown(rise, k) * Ungrown(rise, years - 1 - k)
                        * Annuity(rate, 12) * Ungrown(rate, 12 * k)
                        * Grown(rate, 12 * (years - 1 - k))],
                   0..(years - 1))
    IN  [n |-> n * Ungrown(rise, years - 1) * Ungrown(rate, 12 * years), d |-> d * worth]

\* planGoal of [target, current, months, return, tax, stepUp]; a stepUp of 0 is
\* none.  The gap is the fraction gap / whole.
PlanGoal(g) ==
    LET months == Larger(1, g.months)
        rate   == MonthlyRate(AfterTax(g.return, g.tax))
        whole  == Ungrown(rate, months)
        gap    == Larger(0, g.target * whole - g.current * Grown(rate, months))
        sip    == IF gap > 0 /\ g.stepUp > 0
                  THEN SteppedFirstYearSip(gap, whole, rate, months, g.stepUp)
                  ELSE [n |-> gap, d |-> Annuity(rate, months)]
    IN  [projectedCurrent |-> FromMinor(g.current * Grown(rate, months), whole),
         gap |-> FromMinor(gap, whole), monthlySip |-> FromMinor(sip.n, sip.d)]
------------------------------------------------------------------------------
\* corpusForDrawdown: the corpus that pays a year's expenses, growing with
\* inflation, at the start of each year.  The real return is a fraction, which
\* may be negative: the two differences then change their sign together.
\* FAULT: the first year's expenses are drawn at the end of the year.
CorpusInArrears(annual, years, return, inflation) ==
    LET q == Fraction(100 + return, 100 + inflation)
    IN  IF return = inflation THEN [n |-> annual * years, d |-> 1]
        ELSE [n |-> annual * Magnitude(Power(q.n, years) - Power(q.d, years)) * q.d,
              d |-> Power(q.n, years) * Magnitude(q.n - q.d)]

CorpusForDrawdown(annual, years, return, inflation) ==
    LET q == Fraction(100 + return, 100 + inflation)
    IN  IF return = inflation THEN [n |-> annual * years, d |-> 1]
        ELSE [n |-> annual * Magnitude(Power(q.n, years) - Power(q.d, years)) * q.n,
              d |-> Power(q.n, years) * Magnitude(q.n - q.d)]

\* sipForTarget: the instalment that makes n / d in the given years.
SipForTarget(n, d, net, years) ==
    LET months == Larger(1, years * 12)
        rate   == MonthlyRate(net)
    IN  FromMinor(n * Ungrown(rate, months), d * Annuity(rate, months))

\* futureValue, of an annual rate.
FutureValue(value, rate, years) ==
    [n |-> value * Grown(rate, years), d |-> Ungrown(rate, years)]

\* Math.max(0, required - projected).
Shortfall(required, projected) ==
    [n |-> Larger(0, required.n * projected.d - projected.n * required.d),
     d |-> required.d * projected.d]

\* What computeRetirement answers, from its amounts, which are fractions.
RetirementResult(inflated, required, projected, preReturn, years) ==
    LET gap == Shortfall(required, projected)
    IN  [inflatedAnnualExpenses |-> FromMinor(inflated.n, inflated.d),
         requiredCorpus |-> FromMinor(required.n, required.d),
         projectedCorpus |-> FromMinor(projected.n, projected.d),
         corpusGap |-> FromMinor(gap.n, gap.d),
         monthlySip |-> IF years > 0 THEN SipForTarget(gap.n, gap.d, preReturn, years)
                        ELSE FromMinor(gap.n, gap.d),
         onTrack |-> gap.n = 0]

\* computeRetirement of [age, retirementAge, yearsInRetirement, expenses,
\* corpus, inflation, preReturn, postReturn, tax].
ComputeRetirement(p) ==
    LET years     == Larger(0, p.retirementAge - p.age)
        preReturn == AfterTax(p.preReturn, p.tax)
        inflated  == FutureValue(p.expenses, Fraction(p.inflation, 100), years)
        drawdown  == CorpusForDrawdown(inflated.n, p.yearsInRetirement, p.postReturn, p.inflation)
        required  == [n |-> drawdown.n, d |-> drawdown.d * inflated.d]
        projected == FutureValue(p.corpus, NetRate(preReturn, 100), years)
    IN  RetirementResult(inflated, required, projected, preReturn, years)
------------------------------------------------------------------------------
\* analyzeLifeInsuranceGap.
AnalyzeLifeInsuranceGap(p) ==
    LET recommended == p.annualIncome * (IF p.dependents > 0 THEN 15 ELSE 10)
                       + p.outstandingLiabilities
        shortfall   == Larger(0, recommended - p.existingCover)
    IN  [recommended |-> recommended, shortfall |-> shortfall, adequate |-> shortfall = 0]

\* SECTION_80C_INSTRUMENTS: isSection80CEligible.
Section80CInstruments == {"elss", "epf", "ppf", "life_insurance", "nps", "other_80c"}

\* The contributions of c that share the ceiling.
Shared(c) == (DOMAIN c \cap Section80CInstruments) \ {"nps"}

\* section80CStatus: NPS fills its own bucket first and spills into the shared one.
\* FAULT: the part of the NPS in its own bucket counts in the shared one as well.
Section80CTwice(c, limit, npsLimit) ==
    LET nps   == Larger(0, c.nps)
        other == SumOver([i \in DOMAIN c |-> Larger(0, c[i])], Shared(c))
        used  == Smaller(nps + other, limit)
    IN  [used |-> used, headroom |-> limit - used,
         npsHeadroom |-> npsLimit - Smaller(nps, npsLimit)]

Section80CStatus(c, limit, npsLimit) ==
    LET nps     == Larger(0, c.nps)
        inTopUp == Smaller(nps, npsLimit)
        other   == SumOver([i \in DOMAIN c |-> Larger(0, c[i])], Shared(c))
        used    == Smaller((nps - inTopUp) + other, limit)
    IN  [used |-> used, headroom |-> Larger(0, limit - used),
         npsHeadroom |-> Larger(0, npsLimit - inTopUp)]
==============================================================================
