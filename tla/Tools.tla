-------------------------------- MODULE Tools --------------------------------
(***************************************************************************)
(* The calculators nobody signs in for: the tool tabs of the home page     *)
(* (ToolsSection, HealthCheck, RetirementCalculator, InsuranceGap,         *)
(* WealthDna), the ToolsController behind them, and the functions of       *)
(* packages/core that a program can call.  A visitor uses the page or a    *)
(* program makes one call after another; nothing is stored.                *)
(***************************************************************************)
EXTENDS Scores, Projections, FiniteSets

CONSTANTS Questions,   \* ids of the quiz, WEALTH_DNA_QUESTIONS
          Fields,      \* per form tool, the fields a visitor types into
          Typed,       \* what can be typed into a field, Blank or an integer
          Defaults,    \* per form tool, the form it opens with
          Calls,       \* per tool, the inputs a program calls it with
          EightyC,     \* SECTION_80C_LIMIT_MINOR
          NpsLimit,    \* SECTION_80CCD1B_LIMIT_MINOR
          Blank, None  \* an empty field; no value

Archetypes == <<"builder", "protector", "achiever", "explorer">>
Archetype  == ToSet(Archetypes)
FormTool   == {"health", "retirement", "insurance"}
Tab        == FormTool \cup {"dna"}
Function   == {"plan", "deduction", "allocation"}

\* The inputs a program may call a tool with: amounts are whole, rates of a
\* retirement lose less than everything, those of a plan lose nothing.
RetirementInput(p) ==
    /\ p.age \in Int /\ p.retirementAge \in Int /\ p.yearsInRetirement \in Nat
    /\ p.expenses \in Int /\ p.inflation \in Int /\ p.postReturn \in Int
    /\ p.inflation > -100 /\ p.postReturn > -100

PlanInput(g) ==
    /\ {g.target, g.current, g.months, g.stepUp} \subseteq Int
    /\ g.return \in Nat /\ g.tax \in 0..1000 \cup {NoTax}

AllocationInput(a) ==
    /\ \A c \in DOMAIN a.values : a.values[c] \in Int
    /\ a.risk \in {"conservative", "moderate", "aggressive"} /\ a.age \in Int

DeductionInput(c) ==
    IsFiniteSet(DOMAIN c) /\ "nps" \in DOMAIN c /\ \A i \in DOMAIN c : c[i] \in Int

ASSUME ToolsAssumption ==
    /\ IsFiniteSet(Questions) /\ Questions # {}
    /\ \A t \in FormTool : Fields[t] \subseteq DOMAIN Defaults[t]
    /\ Typed \subseteq Int \cup {Blank}
    /\ {"age", "retirementAge", "yearsInRetirement", "expenses", "inflation", "postReturn"}
         \subseteq DOMAIN Defaults["retirement"]
    /\ \A k \in DOMAIN Defaults["retirement"] : Defaults["retirement"][k] \in Nat
    /\ DOMAIN Calls = Tab \cup Function
    /\ \A in \in Calls["retirement"] : RetirementInput(in)
    /\ \A in \in Calls["dna"] : IsFiniteSet(DOMAIN in)
    /\ \A in \in Calls["plan"] : PlanInput(in)
    /\ \A in \in Calls["allocation"] : AllocationInput(in)
    /\ \A in \in Calls["deduction"] : DeductionInput(in)
    /\ EightyC \in Nat /\ NpsLimit \in Nat

VARIABLES client,    \* the page, or a program
          tool,      \* ToolsSection.tool
          form,      \* the fields, or the answers per question of the quiz
          quiz,      \* the questions have been fetched
          sent,      \* answers posted whose reply is outstanding
          shown,     \* the report, or None
          submitted  \* HISTORY: the input for which shown was asked

toolVars == <<client, tool, form, quiz, sent, shown, submitted>>
------------------------------------------------------------------------------
\* sanitize keeps digits only, so a sign is lost; parseField of "" is 0.
Sanitize(raw)     == IF raw = Blank THEN Blank ELSE Magnitude(raw)
ParseField(value) == IF value = Blank THEN 0 ELSE value
Parsed(f)         == [k \in DOMAIN f |-> ParseField(f[k])]

\* computeWealthDna: the first archetype of the order with the most answers.
Votes(answers, a) == Cardinality({q \in DOMAIN answers : answers[q] = a})

ComputeWealthDna(answers) ==
    LET best[n \in 1..Len(Archetypes)] ==
            IF n = 1 THEN Archetypes[1]
            ELSE IF Votes(answers, Archetypes[n]) > Votes(answers, best[n - 1])
                 THEN Archetypes[n] ELSE best[n - 1]
    IN  best[Len(Archetypes)]

\* ToolsController and the component that calls the same function; the health
\* check sends no retirement figures.
HealthInput(f) == f @@ [retirementRequiredCorpus |-> 0, retirementCorpusGap |-> 0]

Answer(t, in) ==
    CASE t = "health"     -> ComputeWealthHealth(HealthInput(in))
      [] t = "retirement" -> ComputeRetirement(in)
      [] t = "insurance"  -> AnalyzeLifeInsuranceGap(in)
      [] t = "dna"        -> ComputeWealthDna(in)
      [] t = "allocation" -> AnalyzeAllocation(in.values, in.risk, in.age)
      [] t = "plan"       -> PlanGoal(in)
      [] t = "deduction"  -> Section80CStatus(in, EightyC, NpsLimit)

\* What a form leaves to the component: the flag of the health check, and the
\* tax that the retirement form does not ask for.
ToInput(t, f) ==
    CASE t = "health"     -> [Parsed(f) EXCEPT !.hasHealthInsurance = (@ # 0)]
      [] t = "retirement" ->
           [k \in DOMAIN f \cup {"tax"} |-> IF k = "tax" THEN NoTax ELSE ParseField(f[k])]
      [] t = "insurance"  -> Parsed(f)
------------------------------------------------------------------------------
Opened(t) == IF t = "dna" THEN [q \in Questions |-> None] ELSE Defaults[t]

ToolsInit ==
    /\ client \in {"page", "program"}
    /\ tool = "health" /\ form = Opened("health")
    /\ quiz = FALSE /\ sent = None /\ shown = None /\ submitted = None

OnPage(t) == client = "page" /\ tool = t

\* ToolsSection: another tab mounts its component afresh.
PickTab(t) ==
    /\ client = "page" /\ tool # t
    /\ tool' = t /\ form' = Opened(t)
    /\ quiz' = FALSE /\ sent' = None /\ shown' = None /\ submitted' = None
    /\ UNCHANGED client

\* NumberField.onChange; the report stays as it is.
Type(k, raw) ==
    /\ client = "page" /\ tool \in FormTool /\ k \in Fields[tool]
    /\ form' = [form EXCEPT ![k] = Sanitize(raw)]
    /\ UNCHANGED <<client, tool, quiz, sent, shown, submitted>>

\* run of a form tool.
Run ==
    /\ client = "page" /\ tool \in FormTool
    /\ shown' = Answer(tool, ToInput(tool, form))
    /\ submitted' = ToInput(tool, form)
    /\ UNCHANGED <<client, tool, form, quiz, sent>>

\* WealthDna: the questions arrive; a failed fetch is ignored and not repeated.
QuizLoaded ==
    /\ OnPage("dna") /\ ~quiz
    /\ quiz' = TRUE
    /\ UNCHANGED <<client, tool, form, sent, shown, submitted>>

\* An option is clicked, also while a reply is outstanding.
Pick(q, a) ==
    /\ OnPage("dna") /\ quiz /\ shown = None
    /\ form' = [form EXCEPT ![q] = a]
    /\ UNCHANGED <<client, tool, quiz, sent, shown, submitted>>

AllAnswered == \A q \in Questions : form[q] # None

\* submit: the answers of this moment are posted; the button is off meanwhile.
Submit ==
    /\ OnPage("dna") /\ quiz /\ shown = None /\ AllAnswered /\ sent = None
    /\ sent' = form
    /\ submitted' = form
    /\ UNCHANGED <<client, tool, form, quiz, shown>>

\* FAULT: the reply is scored on what is selected when it arrives.
ReplyToSelection ==
    /\ OnPage("dna") /\ sent # None
    /\ shown' = Answer("dna", form)
    /\ sent' = None
    /\ UNCHANGED <<client, tool, form, quiz, submitted>>

Reply ==
    /\ OnPage("dna") /\ sent # None
    /\ shown' = Answer("dna", sent)
    /\ sent' = None
    /\ UNCHANGED <<client, tool, form, quiz, submitted>>

ReplyFails ==
    /\ OnPage("dna") /\ sent # None
    /\ sent' = None
    /\ UNCHANGED <<client, tool, form, quiz, shown, submitted>>

Retake ==
    /\ OnPage("dna") /\ shown # None
    /\ shown' = None /\ form' = Opened("dna") /\ submitted' = None
    /\ UNCHANGED <<client, tool, quiz, sent>>

\* ToolsController, or a function of packages/core: one call, one answer.
Call(t, in) ==
    /\ client = "program"
    /\ tool' = t /\ form' = None
    /\ shown' = Answer(t, in) /\ submitted' = in
    /\ UNCHANGED <<client, quiz, sent>>

ToolsNext ==
    \/ \E t \in Tab : PickTab(t)
    \/ \E k \in UNION {Fields[t] : t \in FormTool}, raw \in Typed : Type(k, raw)
    \/ Run
    \/ QuizLoaded
    \/ \E q \in Questions, a \in Archetype : Pick(q, a)
    \/ Submit \/ Reply \/ ReplyFails \/ Retake
    \/ \E t \in Tab \cup Function : \E in \in Calls[t] : Call(t, in)

ToolsSpec == ToolsInit /\ [][ToolsNext]_toolVars
------------------------------------------------------------------------------
\* The quiz outcome shown is that of the answers that were sent, whatever was
\* clicked while the reply was on its way: nothing chosen then has more answers,
\* and of those with as many the one first in the order wins (WealthDna.submit,
\* computeWealthDna).
OutcomeOfAnswersSent ==
    (tool = "dna" /\ shown # None) =>
        LET Place(a) == CHOOSE n \in DOMAIN Archetypes : Archetypes[n] = a
        IN  \A a \in Archetype \ {shown} :
                \/ Votes(submitted, a) < Votes(submitted, shown)
                \/ Votes(submitted, a) = Votes(submitted, shown) /\ Place(shown) < Place(a)

\* A balance that starts at `start`, and in each period is multiplied by `factor`
\* and then increased by added[m].
BalanceAfter(start, factor, added, periods) ==
    LET balance[m \in 0..periods] ==
            IF m = 0 THEN start ELSE balance[m - 1] * factor + added[m]
    IN  balance[periods]

\* What a start and sip[m] saved at the end of each month m come to, times Ungrown.
SavedAfter(start, rate, months, sip) ==
    BalanceAfter(start, rate.d + rate.n,
                 [m \in 1..months |-> sip[m] * Ungrown(rate, m)], months)

\* The instalment of month m, in units of the first, when it rises by a fraction
\* once a year; over the denominator of the fraction to the power `last`.
Risen(rise, last, m) ==
    Grown(rise, (m - 1) \div 12) * Ungrown(rise, last - ((m - 1) \div 12))

\* Saving the monthly amount of a plan, stepped up each year where the plan says
\* so, and letting all of it grow month by month reaches the target, up to what
\* rounding one instalment by half a unit is worth (planGoal and
\* steppedFirstYearSip, which counts in whole years).
PlanReachesTarget ==
    (tool = "plan" /\ shown # None
     /\ (submitted.stepUp > 0 => submitted.months > 0 /\ submitted.months % 12 = 0)) =>
        LET rate   == MonthlyRate(AfterTax(submitted.return, submitted.tax))
            months == Larger(1, submitted.months)
            rise   == Fraction(Larger(0, submitted.stepUp), 100)
            last   == (months - 1) \div 12
            unit   == Ungrown(rise, last)
            sips   == [m \in 1..months |-> shown.monthlySip * Risen(rise, last, m)]
            saved  == SavedAfter(submitted.current * unit, rate, months, sips)
            slack  == SavedAfter(0, rate, months, [m \in 1..months |-> Risen(rise, last, m)])
            unmet  == submitted.target * unit * Ungrown(rate, months) - saved
        IN  /\ 2 * unmet <= slack
            /\ shown.monthlySip > 0 => -2 * unmet <= slack

\* What is left of a corpus after n years in which the expenses, growing with
\* inflation, are drawn first and the rest earns the return, over one denominator.
LeftAfter(corpus, expenses, n, return, inflation) ==
    LET growth == (return.n + return.d) * inflation.d
    IN  BalanceAfter(corpus, growth,
                     [y \in 1..n |-> -expenses * (Grown(inflation, y - 1)
                                       * Ungrown(return, y - 1) * growth)], n)

\* Drawing the inflated expenses at the start of every year of retirement, from
\* the required corpus invested at the later return, uses the corpus up and not
\* more, up to the rounding of the two amounts (corpusForDrawdown).
CorpusLasts ==
    (tool = "retirement" /\ shown # None) =>
        LET n == submitted.yearsInRetirement
            return    == Fraction(submitted.postReturn, 100)
            inflation == Fraction(submitted.inflation, 100)
        IN  2 * Magnitude(LeftAfter(shown.requiredCorpus, shown.inflatedAnnualExpenses,
                                    n, return, inflation))
              <= LeftAfter(1, -1, n, return, inflation)

\* The 80C report adds up: the deductions used and left are the two ceilings,
\* and of what was contributed to an eligible instrument all is either deductible
\* or above a ceiling that is then used up; nothing else is (section80CStatus).
DeductionsAddUp ==
    (tool = "deduction" /\ shown # None) =>
        LET given == SumOver([i \in DOMAIN submitted |-> Larger(0, submitted[i])],
                             DOMAIN submitted \cap Section80CInstruments)
            inNps == NpsLimit - shown.npsHeadroom
        IN  /\ shown.used + shown.headroom = EightyC
            /\ shown.used + inNps <= given
            /\ shown.used + inNps < given => shown.headroom = 0

\* A recommended mix is a whole portfolio at every age: its shares are not
\* negative and make 100%, up to the rounding of each share, so that the drifts
\* of a household that owns something balance out (recommendedAllocation,
\* analyzeAllocation).
MixIsWhole ==
    (tool = "allocation" /\ shown # None) =>
        LET Total(f) == SumOver(f, AssetClass)
        IN  /\ \A c \in AssetClass : shown.recommended[c] >= 0
            /\ Magnitude(Total(shown.recommended) - 1000) <= 4
            /\ Total(shown.current) # 0 => Magnitude(Total(shown.drift)) <= 8
            /\ submitted.age > 0 => \A older \in (submitted.age + 1)..100 :
                  RecommendedAllocation(submitted.risk, older).equity
                    <= shown.recommended.equity
==============================================================================
