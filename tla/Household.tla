------------------------------ MODULE Household ------------------------------
(***************************************************************************)
(* One user's rows and the reports the API draws from them: net worth and  *)
(* its timeline (networth.service.ts), early warnings (insights.module.ts),*)
(* the coach and the second opinion (ai.service.ts), cashflow              *)
(* (transactions.module.ts) and goal plans (goals.module.ts).  A report    *)
(* reads table after table while other requests of the user change them.   *)
(***************************************************************************)
EXTENDS Scores, Projections, FiniteSets

CONSTANTS AccountId, DebtId, GoalId, TxId,   \* row ids
          AccountRow, Payment, GoalRow, TxRow, \* what create can be given
          Balances,            \* balances an update can set
          Start,               \* the rows a behaviour begins with
          ProfileDto,          \* the partial profiles of UpdateProfileDto
          RetirementDefaults,  \* RETIREMENT_DEFAULTS
          DefaultAge,          \* DEFAULT_AGE
          HasClient,           \* whether an ANTHROPIC_API_KEY is set: {TRUE}, {FALSE} or both
          MaxEdits, MaxSnaps,  \* bounds on changes and on captured snapshots
          NoRow, None

Table == {"profile", "accounts", "debts", "goals", "txs"}
Kind  == {"current", "capture", "warning", "coach", "second", "cashflow", "goals"}

\* What the code puts for an absent profile or field: the ?? defaults.
NoProfile == [age |-> None, currency |-> "INR", annualIncome |-> 0, monthlyExpenses |-> 0,
              riskTolerance |-> "moderate", dependents |-> 0, hasTermCover |-> FALSE,
              hasHealthInsurance |-> FALSE, existingLifeCover |-> 0]

\* Spread: the fields of f in place of those of g.
Over(f, g) == [k \in DOMAIN f \cup DOMAIN g |-> IF k \in DOMAIN f THEN f[k] ELSE g[k]]

\* The rows of a user: an amount is whole and may have either sign.
CurrencyCode  == {"INR", "USD", "EUR", "GBP", "AED", "SGD"}
RiskTolerance == {"conservative", "moderate", "aggressive"}
ProfileType == [age : Int \cup {None}, currency : CurrencyCode, annualIncome : Int,
                monthlyExpenses : Int, riskTolerance : RiskTolerance, dependents : Int,
                hasTermCover : BOOLEAN, hasHealthInsurance : BOOLEAN,
                existingLifeCover : Int]
AccountType == [type : STRING, assetClass : AssetClass \cup {NoClass}, currency : CurrencyCode,
                balance : Int, isLiability : BOOLEAN]
GoalType    == [target : Int, current : Int, months : Int, return : Int]
TxType      == [type : STRING, amount : Int, category : STRING]
UserRows    == [profile : ProfileType \cup {NoRow},
                accounts : [AccountId -> AccountType \cup {NoRow}],
                debts : [DebtId -> Int \cup {NoRow}],
                goals : [GoalId -> GoalType \cup {NoRow}],
                txs : [TxId -> TxType \cup {NoRow}]]

ASSUME HouseholdAssumption ==
    /\ \A S \in {AccountId, DebtId, GoalId, TxId} : IsFiniteSet(S)
    /\ \A dto \in ProfileDto : /\ DOMAIN dto \subseteq DOMAIN NoProfile
                             /\ Over(dto, NoProfile) \in ProfileType
    /\ Start \subseteq UserRows /\ AccountRow \subseteq AccountType
    /\ NoRow \notin AccountType
    /\ GoalRow \subseteq GoalType /\ TxRow \subseteq TxType
    /\ Payment \subseteq Int /\ Balances \subseteq Int
    /\ RetirementDefaults \in [retirementAge : Nat, yearsInRetirement : Nat, inflation : Nat,
                               preReturn : Nat, postReturn : Nat, tax : Nat]
    /\ DefaultAge \in Nat
    /\ HasClient \subseteq BOOLEAN /\ HasClient # {}
    /\ MaxEdits \in Nat /\ MaxSnaps \in Nat

VARIABLES rows,      \* the tables of this user; a table of ids holds rows or NoRow
          timeline,  \* NetWorthSnapshot rows, in the order of capturedAt
          client,    \* AiService.client is configured
          req,       \* the report in progress, or None
          answer,    \* HISTORY: what the last report was drawn from and whether a
                     \* model commented on it, until the rows change again
          edits      \* changes made, for the bound

vars == <<rows, timeline, client, req, answer, edits>>
------------------------------------------------------------------------------
Existing(table) == {i \in DOMAIN table : table[i] # NoRow}
Book(accounts)  == [i \in Existing(accounts) |-> accounts[i]]

AgeFromDob(age) == IF age = None \/ age \notin 0..119 THEN DefaultAge ELSE age

\* A goal's plan, without tax on the gains and without a step-up.
Plan(goal) == PlanGoal(Over([tax |-> NoTax, stepUp |-> 0], goal))

\* Goal slippage: the gap as a share of the target.
Slippage(goal) == IF goal.target > 0 THEN [n |-> Plan(goal).gap, d |-> goal.target]
                  ELSE [n |-> 0, d |-> 1]

\* FAULT: a credit card of class cash counts as cash.
EmergencyFundCards(book) ==
    Balance(book, {i \in DOMAIN book : book[i].assetClass = "cash"})

\* The cash that is nobody's liability.
EmergencyFund(book) == Balance(book, Held(book, "cash"))

\* What can be spent at once: cash, and what is at a bank.
Liquid(book) == {i \in Owned(book) : book[i].assetClass = "cash" \/ book[i].type = "bank"}

\* FinancialSnapshotService.assemble from what its four queries returned.
Snapshot(got) ==
    LET p == IF got.profile = NoRow THEN NoProfile ELSE got.profile
        book == Book(got.accounts)
        values == ValuesByClass(book)
        investments == Balance(book, Held(book, "equity") \cup Held(book, "debt"))
        age == AgeFromDob(p.age)
        retirement == ComputeRetirement(Over(
            [retirementAge |-> Larger(age + 1, RetirementDefaults.retirementAge),
             age |-> age, expenses |-> 12 * p.monthlyExpenses, corpus |-> investments],
            RetirementDefaults))
        assets == Balance(book, Owned(book))
        liabilities == Balance(book, Liabilities(book))
    IN  [currency |-> p.currency, age |-> age, dependents |-> p.dependents,
         riskTolerance |-> p.riskTolerance, annualIncome |-> p.annualIncome,
         monthlyExpenses |-> p.monthlyExpenses, hasTermCover |-> p.hasTermCover,
         hasHealthInsurance |-> p.hasHealthInsurance,
         existingLifeCover |-> p.existingLifeCover,
         totalAssets |-> assets, totalLiabilities |-> liabilities,
         netWorth |-> assets - liabilities,
         liquidAssets |-> Balance(book, Liquid(book)),
         emergencyFund |-> EmergencyFund(book),
         investmentAssets |-> investments,
         allocationPct |-> IF DOMAIN values = {} THEN values ELSE Normalize(values),
         monthlyDebtPayment |-> SumOver(got.debts, Existing(got.debts)),
         goalSlippage |-> {Slippage(got.goals[i]) : i \in Existing(got.goals)},
         retirementRequiredCorpus |-> retirement.requiredCorpus,
         retirementCorpusGap |-> retirement.corpusGap]

\* toScoreInput, toEarlyWarningInput: the fields each engine is given.
ToScoreInput(s) ==
    [k \in {"monthlyExpenses", "emergencyFund", "annualIncome", "existingLifeCover",
            "hasHealthInsurance", "investmentAssets", "totalAssets", "totalLiabilities",
            "retirementCorpusGap", "retirementRequiredCorpus"} |-> s[k]]
ToEarlyWarningInput(s) ==
    [k \in {"allocationPct", "monthlyExpenses", "emergencyFund", "liquidAssets",
            "totalAssets", "totalLiabilities", "annualIncome", "monthlyDebtPayment",
            "hasTermCover", "hasHealthInsurance", "dependents", "goalSlippage"} |-> s[k]]
------------------------------------------------------------------------------
\* NetWorthService.current; SummarizeCashflow over the user's transactions.
Currency(got) == IF got.profile = NoRow THEN "INR" ELSE got.profile.currency

SummarizeCashflow(txs) ==
    LET Sum(ids) == SumOver([i \in Existing(txs) |-> txs[i].amount], ids)
        incomes  == {i \in Existing(txs) : txs[i].type = "income"}
        expenses == {i \in Existing(txs) : txs[i].type = "expense"}
    IN  [income |-> Sum(incomes), expense |-> Sum(expenses),
         net |-> Sum(incomes) - Sum(expenses),
         byCategory |-> [c \in {txs[i].category : i \in expenses} |->
             Sum({i \in expenses : txs[i].category = c})]]

\* buildContext: what the coach is told, whether the LLM answers or not.
Context(s) ==
    LET health == ComputeWealthHealth(ToScoreInput(s))
    IN  [netWorth |-> s.netWorth, assets |-> s.totalAssets, liabilities |-> s.totalLiabilities,
         overall |-> health.overall, score |-> health.score,
         actions |-> TopWealthActions(health)]

\* The report of each kind, from what was read.
Report(kind, got) ==
    CASE kind \in {"current", "capture"} ->
           Over([currency |-> Currency(got)], ComputeNetWorth(Book(got.accounts)))
      [] kind = "warning" -> ComputeEarlyWarning(ToEarlyWarningInput(Snapshot(got)))
      [] kind = "coach" -> Context(Snapshot(got))
      [] kind = "second" ->
           AnalyzeAllocation(ValuesByClass(Book(got.accounts)),
               (IF got.profile = NoRow THEN NoProfile ELSE got.profile).riskTolerance, 0)
      [] kind = "cashflow" -> Over([currency |-> Currency(got)], SummarizeCashflow(got.txs))
      [] kind = "goals" -> [i \in Existing(got.goals) |-> Plan(got.goals[i])]

\* The queries of a report: those of one set are sent together.
Queries(kind) ==
    CASE kind \in {"current", "capture"} -> <<{"accounts"}, {"profile"}>>
      [] kind \in {"warning", "coach"}   -> <<{"profile", "accounts", "debts", "goals"}>>
      [] kind = "second"                 -> <<{"profile", "accounts"}>>
      [] kind = "cashflow"               -> <<{"profile"}, {"txs"}>>
      [] kind = "goals"                  -> <<{"goals"}>>
------------------------------------------------------------------------------
\* Rows that earlier requests have left.
Init ==
    /\ rows \in Start
    /\ timeline = <<>>
    /\ client \in HasClient
    /\ req = None
    /\ answer = None
    /\ edits = 0

\* A change of the user's rows by another request: what was read may be gone,
\* and no earlier report speaks of these rows.
Edit(newRows) ==
    /\ edits < MaxEdits
    /\ edits' = edits + 1
    /\ rows' = newRows
    /\ req' = IF req = None THEN None ELSE [req EXCEPT !.torn = TRUE]
    /\ answer' = None
    /\ UNCHANGED <<timeline, client>>

\* AccountsService.create, update, remove.
CreateAccount(i, row) ==
    /\ rows.accounts[i] = NoRow
    /\ Edit([rows EXCEPT !.accounts[i] = row])
UpdateAccount(i, balance) ==
    /\ rows.accounts[i] # NoRow
    /\ Edit([rows EXCEPT !.accounts[i].balance = balance])
RemoveAccount(i) ==
    /\ rows.accounts[i] # NoRow
    /\ Edit([rows EXCEPT !.accounts[i] = NoRow])

\* ProfileService.upsert: only the fields that were sent.
UpsertProfile(dto) ==
    Edit([rows EXCEPT !.profile = Over(dto, IF @ = NoRow THEN NoProfile ELSE @)])

\* GoalsService.create and remove, the debts' create, TransactionsService.create.
CreateGoal(i, row) ==
    /\ rows.goals[i] = NoRow
    /\ Edit([rows EXCEPT !.goals[i] = row])
RemoveGoal(i) ==
    /\ rows.goals[i] # NoRow
    /\ Edit([rows EXCEPT !.goals[i] = NoRow])
CreateDebt(i, payment) ==
    /\ rows.debts[i] = NoRow
    /\ Edit([rows EXCEPT !.debts[i] = payment])
CreateTransaction(i, row) ==
    /\ rows.txs[i] = NoRow
    /\ Edit([rows EXCEPT !.txs[i] = row])
------------------------------------------------------------------------------
Ask(kind) ==
    /\ req = None /\ (kind = "capture" => Len(timeline) < MaxSnaps)
    /\ req' = [kind |-> kind, todo |-> Queries(kind), got |-> <<>>, llm |-> FALSE,
               torn |-> FALSE]
    /\ answer' = None
    /\ UNCHANGED <<rows, timeline, client, edits>>

\* One query of the current set returns.
Read(t) ==
    /\ req # None /\ req.todo # <<>> /\ t \in Head(req.todo)
    /\ LET rest == Head(req.todo) \ {t}
       IN  req' = [req EXCEPT !.got = Over([k \in {t} |-> rows[k]], @),
                              !.todo = IF rest = {} THEN Tail(@) ELSE <<rest>> \o Tail(@)]
    /\ UNCHANGED <<rows, timeline, client, answer, edits>>

\* The report of what was read is sent.
Done(ai) ==
    /\ answer' = [kind |-> req.kind, got |-> req.got, ai |-> ai, torn |-> req.torn]
    /\ req' = None

HasRead == req # None /\ req.todo = <<>>

\* Reports that are computed and sent.
Answer ==
    /\ HasRead /\ req.kind \in {"current", "warning", "cashflow", "goals"}
    /\ Done(FALSE)
    /\ UNCHANGED <<rows, timeline, client, edits>>

\* NetWorthService.snapshot: the figures read become a row of the timeline.
Capture ==
    /\ HasRead /\ req.kind = "capture"
    /\ timeline' = Append(timeline, Report("capture", req.got))
    /\ Done(FALSE)
    /\ UNCHANGED <<rows, client, edits>>

\* coach, secondOpinion: without a client the answer is the deterministic one.
Advice == req.kind \in {"coach", "second"}

AnswerWithoutLlm ==
    /\ HasRead /\ Advice /\ ~client
    /\ Done(FALSE)
    /\ UNCHANGED <<rows, timeline, client, edits>>

CallLlm ==
    /\ HasRead /\ Advice /\ client /\ ~req.llm
    /\ req' = [req EXCEPT !.llm = TRUE]
    /\ UNCHANGED <<rows, timeline, client, answer, edits>>

\* FAULT: the error is not caught, the request ends without a report.
LlmUncaught ==
    /\ HasRead /\ req.llm
    /\ \/ Done(TRUE)
       \/ req' = None /\ answer' = None
    /\ UNCHANGED <<rows, timeline, client, edits>>

\* The call ends: with a reply, or with an error that is caught.
LlmEnds ==
    /\ HasRead /\ req.llm
    /\ \E ai \in BOOLEAN : Done(ai)
    /\ UNCHANGED <<rows, timeline, client, edits>>

Change ==
    \/ \E i \in AccountId :
          \/ \E row \in AccountRow : CreateAccount(i, row)
          \/ \E b \in Balances : UpdateAccount(i, b)
          \/ RemoveAccount(i)
    \/ \E dto \in ProfileDto : UpsertProfile(dto)
    \/ \E i \in GoalId : RemoveGoal(i) \/ \E row \in GoalRow : CreateGoal(i, row)
    \/ \E i \in DebtId, p \in Payment : CreateDebt(i, p)
    \/ \E i \in TxId, row \in TxRow : CreateTransaction(i, row)

Handle ==
    \/ \E t \in Table : Read(t)
    \/ Answer \/ Capture \/ AnswerWithoutLlm \/ CallLlm \/ LlmEnds

Next == Change \/ Handle \/ \E k \in Kind : Ask(k)

Spec == Init /\ [][Next]_vars

\* A request that has started goes on: its queries return, its LLM call ends.
FairSpec == Spec /\ WF_vars(Handle)
------------------------------------------------------------------------------
\* The last report is of this kind and nothing has changed since it was asked.
Quiet(kind) == answer # None /\ answer.kind = kind /\ ~answer.torn

\* What that report says.
Said == Report(answer.kind, answer.got)

\* The coach speaks of the assets, liabilities and net worth that the net-worth
\* page and a captured timeline row show of the same rows, although assemble and
\* computeNetWorth add the accounts up separately: as long as a liability is
\* recorded as a positive balance.
FiguresAgree ==
    (Quiet("coach") /\ \A i \in Existing(rows.accounts) :
        rows.accounts[i].isLiability => rows.accounts[i].balance >= 0) =>
        LET page == ComputeNetWorth(Book(rows.accounts))
            said == Said
        IN  /\ said.netWorth = page.netWorth
            /\ said.assets = page.assets
            /\ said.liabilities = page.liabilities

\* The early warnings contradict neither the coach nor the goal list: no band of
\* the coach is worse than the emergency-fund warning, so that no action is urged
\* while the warning is green, and goal progress is green exactly when every
\* plan listed leaves less than 15% of its target open.
WarningsAgree ==
    Quiet("warning") =>
        LET signal == Said.signal
            coach  == Context(Snapshot(rows))
        IN  /\ Rank(BandFor(coach.score.emergency_fund)) <= Rank(signal.emergency_fund)
            /\ signal.emergency_fund = "green" => "emergency_fund" \notin ToSet(coach.actions)
            /\ (signal.goal_slippage = "green") =
                 (\A i \in Existing(rows.goals) : rows.goals[i].target > 0 =>
                      20 * Plan(rows.goals[i]).gap < 3 * rows.goals[i].target)

\* The three totals of a snapshot count the same money once: cash is liquid,
\* what is liquid is an asset, and cash and investments are apart; nothing
\* counts twice over the classes either (assemble), when no asset is overdrawn.
TotalsNest ==
    LET s == Snapshot(rows)
        values == ValuesByClass(Book(rows.accounts))
    IN  (\A i \in Existing(rows.accounts) : rows.accounts[i].balance >= 0) =>
            /\ s.emergencyFund <= s.liquidAssets /\ s.liquidAssets <= s.totalAssets
            /\ s.emergencyFund + s.investmentAssets <= s.totalAssets
            /\ SumOver(values, DOMAIN values) <= s.totalAssets

\* The bands and the overall score of the rows a household has.
Health(tables) == ComputeWealthHealth(ToScoreInput(Snapshot(tables)))

\* Money put into a cash account never lowers the overall score, nor any of its
\* parts, of a household that owns something (assemble, computeWealthHealth).
DepositNeverHurts ==
    LET before == Health(rows)
    IN  \A i \in Existing(rows.accounts), b \in Balances :
            LET old == rows.accounts[i]
                after == Health([rows EXCEPT !.accounts[i].balance = b])
            IN  (/\ old.assetClass = "cash" /\ ~old.isLiability /\ b > old.balance
                 /\ Snapshot(rows).totalAssets > 0) =>
                    /\ after.overall >= before.overall
                    /\ \A k \in ScoreKey : after.score[k] >= before.score[k]

\* Whoever asks the coach gets an answer, also when the model cannot be reached
\* or its call fails (coach, fallback).
CoachAnswers ==
    (req # None /\ req.kind = "coach") ~> (answer # None /\ answer.kind = "coach")
==============================================================================
