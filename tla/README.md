# Financial Operating System: TLA+ models, checks and proofs

The repository is a personal-finance product for Indian households: a NestJS API
(`apps/api`) on PostgreSQL through Prisma, a Next.js web app (`apps/web`) and a
library of pure calculations (`packages/core`). Several API instances, browser tabs,
administrators and a payment provider write the same rows. Almost every handler is a
chain of awaited statements without a transaction, and almost every page sends several
requests whose answers come in any order. The modules here model what depends on the
order of things, on both sides of the HTTP API, and the calculations whose figures the
product shows in more than one place.

Run a model with `tlc -workers 2 -config X.cfg MCModule` and check the proofs of a
module with `tlapm Module.tla`. `PROJECT.json` lists every run, the mutants that
show each property can fail, the source lines behind each definition, the hazards
and the theorems.

## 1. Inventory

| Component | State | Operations | Hard behaviour | Modules |
|---|---|---|---|---|
| Billing (`billing/`) | `Subscription`, `Plan.priceMinor` | subscribe, cancel, webhook | find and update are separate statements; awaits on the provider between writes; replayed and reordered webhooks; erasure and comps by administrators | `Billing` |
| Razorpay (external) | orders, events still to be acknowledged | create order, announce an event | at-least-once delivery in any order, one payment announced twice | `Razorpay` |
| Entitlements and gates (`core/entitlements`, `billing.service.ts`, `ai.controller.ts`, `aa.module.ts`) | `FeatureOverride`, `Plan.features`, `FeatureFlag` | resolve, gate; edits of plans, overrides, flags | three reads that edits can fall between; junk in JSON; empty lists | `Entitlements`, `Access` |
| Family (`family/`) | `FamilyMember`, `Profile.dependents` | create, remove, profile upsert | a denormalised count kept by COUNT then UPDATE | `Family` |
| Account aggregation (`aa/`), accounts (`accounts/`) | `Consent`, `Account` | consent, sync; create, update, remove | find-or-create per account without a unique key; partly done syncs; ownership checked a statement before the write | `AccountSync` |
| Debts (`debts/`, `core/finance/debt.ts`) | `Debt` | create, list, payoff plan | month-by-month simulation, rounding, cap on the months | `DebtPayoff`, `Household` |
| Net worth, snapshot, insights, coach, cashflow, goals (`networth/`, `common/financial-snapshot.service.ts`, `insights/`, `ai/`, `transactions/`, `goals/`) | `NetWorthSnapshot`, `Goal`, `Transaction`, `Profile` | create, remove, upsert; report, capture, advise | reports read table after table while other requests change them; the same totals are added up in two services; the call of a language model fails | `Household` |
| Scores, warnings, actions (`core/scoring`) | none | pure functions | thresholds, clamping, rounding, division by zero | `Scores` |
| Money, net worth, allocation (`core/money`, `core/finance/networth.ts`, `assetAllocation.ts`) | none | pure functions | sums over the right rows, rounding of shares | `Money`, `BalanceSheet` |
| Goals, retirement, tax, insurance (`core/finance`) | none | pure functions | compound growth, zero rates, annuities due or in arrears | `Projections` |
| Calculators and quiz (`tools/`, `core/assessment`, the tool tabs) | forms, the quiz | type, run, post, retake | a late reply to answers changed since; empty and negative fields | `Tools` |
| Admin console and audit log (`admin/`, `common/audit.service.ts`, `app/admin/*`) | users, plans, flags, overrides, `AuditLog`; the pages | list, search, page, every button | a change and its record are two statements; late answers; roles that change under an open page | `AdminPages`, `Billing`, `Access` |
| User pages (`app/*`, `components/*`) | what each card shows, the forms that are off | sign in, onboard, edit, subscribe, chat | double submits, late and lost answers, a page left while it waits | `UserPages` |
| Auth and sessions (`auth/`) | users, tokens, one-time codes | sign-in, refresh, reset | only the guards of the admin API are a subject of this project | `AdminPages` |
| Encryption, API wiring, seed, infrastructure | none | I/O | none here | none |

How they interact. Billing, Access and Admin meet in the tables `Subscription`,
`Plan` and `FeatureOverride`: what billing writes, `tierFor` reads, and every gate
decides on. Account aggregation passes a gate and then writes the table that
Accounts edits and that net worth, snapshot and scoring read. Family writes a
column of Profile that insurance and early warning read. Every administrative and
billing write ends in the audit log. The user's row is the root of all foreign
keys: erasing it cascades. The pages know the API only by its answers, and reload
after what they change.

What makes each part correct, in a sentence: a payment takes effect for the user
that made it, once it is made, and for nobody else; an answer about access is what
the tables say, and an override decides; a denormalised count equals what it
counts whenever nothing explains a difference; a sync brings every account and does
not multiply them; a payoff plan neither loses nor invents money, and ends; two
reports of the same rows do not contradict each other; saving what a plan says
reaches its goal; the log names what changed; a page that has settled shows what is
stored, and its forms come back.

## 2. Plan

Most important first. `Household` composes `Scores` and `Projections` (on `Money`
and `BalanceSheet`) with the tables; `Tools` uses the same operators from the other
side, so that one translation of each calculation is checked for what it computes and
for how it is used. `Billing` composes `Razorpay`; `BillingRefinement` relates it to
`SubscriptionContract`.

1. `Razorpay`, `Billing`, `SubscriptionContract`, `BillingRefinement`; proofs in
   `BillingProofs`.
2. `Entitlements` and `Access`; proofs in `AccessProofs`.
3. `Family` and
4. `AccountSync`; proofs of both in `SyncProofs`.
5. `DebtPayoff`; proofs in `CalculatorProofs`.
6. `Money`, `BalanceSheet`, `Scores`, `Projections`, used by `Household` and `Tools`;
   lemmas about the arithmetic in `MoneyProofs`, proofs about the reports in
   `HouseholdProofs` and about the tools in `CalculatorProofs`.
7. `AdminPages`; proofs in `AdminProofs`.
8. `UserPages`; proofs in `PageProofs`.

All of it is written, checked and proved, except liveness, which is only checked
(section 6).

## 3. Modules

### Billing: `Razorpay`, `Billing`

One SQL statement or one call to Razorpay is one atomic step. A handler is a chain of
such steps, and what it still remembers between two of them is `request[r]` (an
authenticated request) or `hook[e]` (the delivery of event `e`).

| Code | Actions |
|---|---|
| `subscribe` | `SubscribeStart` (read the plan, choose the path), `SubscribeActivate` (free, zero price, or not live), `SubscribeCharge` (create the order), `SubscribeRecord` (upsert and answer with the order) |
| `cancel` | `Cancel`, then `AuditWrite` |
| `applyWebhookEvent` | `WebhookFind` (findFirst by order id; an event that finds nothing is acknowledged), `WebhookApply` (the UPDATE by row id), `WebhookAudit` (audit and 2xx) |
| `setUserSubscription`, `updatePlan` (price), `eraseUser` | `AdminSetStart`/`AdminSetWrite`, `AdminSetPrice`, `AdminEraseStart`/`AdminEraseDelete`, each ending in `AuditWrite` |
| an instance dies | `CrashRequest`, `CrashHook` |
| the customer at Razorpay Checkout | `Checkout` (`Capture`, `FailAttempt`) |

The user's deletion cascades to the subscription, and the foreign keys refuse a write
for a deleted user, as in `schema.prisma`. `granted` and `applied` are history
variables. Events are a set that the handler may take again at any time, so they are
delivered late, twice and in any order. One delivery of one event is handled at a
time; two announcements of one payment (`order.paid`, `payment.captured`) are two
events. The administrator who acts is not modelled as a user. An audit entry of a
webhook names the subscription's user.

A declined attempt whose `payment.failed` arrives after `order.paid` leaves the
subscription `past_due`: the model does that too, as the code does, and no property
excludes it. A replayed `order.paid` moves the period end another 30 days on; no
property is about the column, because nothing in the code reads it. A payment of an
order that a later subscribe replaced is acknowledged and never applied: that case
is the second disjunct of `AckedIsSettled`.

`SubscriptionContract` is the promise without orders, webhooks or requests: which
standing may follow which, and on what evidence, one user at a time.
`BillingRefinement` maps the detailed state onto it.

### Access: `Entitlements`, `Access`

`Entitlements` has the resolvers as operators: `resolveEntitlementsFromPlans` (the
cascade over `TIER_ORDER` is a union over lower tiers, then grants are added and
revocations removed), `PlanFeatures` (the fallback of `BillingService.entitlements`
to the defaults), `parseFeatureKeys`. Keys are the known features and strings that
no release knows, because `FeatureOverride.feature` and the JSON of a plan can hold
any string.

`Access` runs `entitlements` as the three statements it is (`ReadTier`,
`ReadOverrides`, `ReadPlans`), after the flag where the gate is `assertEnabled`
(`BeginFlag`), against every edit: tier (billing, comps), overrides, plans, flag.
What billing does to the tier is any change here; how it comes about is `Billing`.
History variables keep the tables at the first read and what was touched since.

The fallback is worth knowing: a plan whose last feature is removed gets the code's
defaults back (`billing.service.ts:53`, documented on line 47), although
`entitlements.test.ts:38` says that removing a feature revokes it.

### Family: `Family`

`Create`, `RemoveMember`, `RemoveNothing` are the first statement of a request; `Count` and
`Write` are the two of `syncDependents`; `upsertProfile` is `PUT /profile`, which
writes the same column and creates the row with 0 dependents (or what was typed)
whether or not members exist. `cause` records, since the last sync that wrote an
up-to-date count, what may have put the column off.

### Account aggregation and accounts: `AccountSync`

`Begin`, `Grant`, `FindConsent`, then for each reported account `Find` and
`UpdateFound` or `CreateMissing`, then `Audit`; in parallel `CreateTyped`, and `Owned`
followed by `Update` or `Remove`. A row found and then removed makes the Prisma update
throw, which ends the sync. The gate is `Access`: here a call that passed it begins. In
live mode consent is never granted and the fetch throws, as in this version of the
code. `End` is the answer or an instance that dies. An account is its reference and
where its balance came from.

### Debt payoff: `DebtPayoff`

One action is one month of `simulateDebtPayoff`: `Accrue`, `PayMinimum`, `PayExtra` (the
loop over `order()` in closed form: a debt gets what the debts before it leave over),
`Record`. `Finish` is the end of the loop and `Compare` the rest of
`compareDebtStrategies`. Amounts are minor units and rates whole numbers. That neither is
negative is an assumption (`DebtAssumption`): `CreateDebtDto` (`debts.module.ts:17-24`)
asks for integers and a number and sets no minimum, so that the code accepts more, and
what it makes of a negative amount is not modelled. `Math.round(balance * rate / 100 / 12)`
is integer division with half a unit rounded up. The code computes that quotient in
floating point, which is exact enough to round the same way on the amounts of the runs.

### Calculations: `Money`, `BalanceSheet`, `Scores`, `Projections`

Amounts are integers in minor units. A sum is taken of a function over the set of the
rows it is about (`SumOver`): which rows count is a set with a name (`Liabilities`,
`Owned`, `Held`), as it is a condition in the loops of the code. `Nth` gives the members
of a set of places in order, `Power` is `Math.pow` with a whole exponent. `Math.round(a / b)` is `Round(a, b)`, integer
division with half a unit rounded up, also for negative quotients. A quotient of the
code that is not rounded stays a numerator over a denominator. Rates are whole
percentages, a tax on gains is tenths of a percent (`tax` 125 is the 12.5% of
`RETIREMENT_DEFAULTS`), what a return is after tax thousandths of one, unrounded as in
`tax.ts:89-92`, and compound growth is an exact fraction: where the code has the
floating-point power `(1 + r)^n`, `Grown` and `Ungrown` are the numerator and the
denominator of the exact one, and only the amounts of an answer are rounded. The
properties about them therefore say what the formulas mean; that a double is exact
enough to round the same way is not modelled.

`BalanceSheet` is a list of accounts and what is computed from it: net worth with
liabilities by magnitude, values and shares by class, the recommended mix by risk and
age, drift. `Scores` has the six sub-scores, their weights, bands, the choice of
actions, and the traffic lights of the early warning. `Projections` has goal plans with
stepped-up instalments, the retirement corpus and its gap, net-of-tax returns, the 80C
status (of the contributions to `Section80CInstruments`; others are ignored, as
`isSection80CEligible` has it) and the insurance gap.

### One household's reports: `Household`

`rows` are one user's tables. `Ask` begins a report, `Read` returns one of the queries
that are outstanding (`Queries`: those of one `Promise.all` come in any order, those
awaited one after the other do not), and `Answer`, `Capture`, `AnswerWithoutLlm` or
`CallLlm` and `LlmEnds` send it. In between, `Change` is any other request of the user:
accounts, the partial profile update (`Over`: the columns of the DTO that were sent, over
those of the row), goals, debts, transactions. `UserRows` are the tables with the types
that `schema.prisma` gives the columns. A report that was
overtaken is `torn`, and no property speaks of it: nothing in the code makes the reads
one. `Snapshot` is `assemble` with every default of an absent profile.

Worth knowing, and part of the model: `assemble` adds liabilities with their sign while
`computeNetWorth` takes their magnitude (`networth.ts`), so that the two agree as long as
a liability is entered as a positive balance, which no validation asks for; a household
with debts and no assets has a debt score of 100 (`scores.ts:78-81`); balances in a
foreign currency are added unconverted, although `networth.ts:20` expects base-currency
amounts. `FiguresAgree` and `DepositNeverHurts` state the conditions under which their
claims hold, and these are the reasons.

### The tool tabs: `Tools`

Either a visitor on the page (`client = "page"`): tabs, fields that keep digits only
(`Sanitize`), `Run`, and the quiz, whose fetch, post and reply are steps of their own;
or a program that calls one function after another (`Call`), which is how
`ToolsController` and the library are used. `RetirementInput`, `PlanInput`,
`AllocationInput` and `DeductionInput` say what a function may be called with: whole
amounts of either sign, a return and an inflation above -100% for a retirement (the code
would divide by nothing at -100%), returns that are not negative for a plan.

### Admin panel and API: `AdminPages`

One browser and the API behind it. A request in flight is a slot of `calls`: `Guard` is
`JwtStrategy` and `RolesGuard` against the role as it is then; `Change` and `Log` are the
two statements of every changing method (`eraseUser` records first, `LogFirst`); `Fail`
is a failing statement, a process lost between them, or an answer lost after both;
`Receive` is the page's answer
handler. `Visit` and `Leave` unload the page and with it what it waited for, and the API
goes on. `CloseFeatures` unmounts the dialog, whose code runs on: its requests are for
`"closed"`, a change is still followed by its load, a 401 or 403 still redirects
(`lib/admin.ts:19-32`), and an answer has nowhere to be shown. `Other` is another administrator, whose request is over at once. `Tables` are the tables
with the types of their columns, `Updated` an update of the columns that were sent,
`RowsAt` the rows a `where` leaves, in their order. A slot without a request is `NoCall`,
a closed dialog `NoDialog`. `halved` and
`mixed` are history: what the properties must not be asked about; `began` is the role one
had in the beginning, so that `First` is what the audit log is held against.

Worth knowing: every mutating action is recorded (`admin.service.ts:13-15`) unless the
insert of the record fails after the change; SUPPORT may click Export, and ANALYST
Suspend and all of plans and flags, and the 403 sends them to the dashboard although
`lib/admin.ts:15-16` takes a 403 for somebody who is not an admin; a plan's features are
sent as the whole list that is shown, so that one of two concurrent edits is lost;
creating a flag is an upsert that can switch off one that somebody created meanwhile.

### The user's pages: `UserPages`

One browser of one signed-in user. `Act` sends a request of a component and may turn a
form off (`busy`); `Serve` is the API, which may have done what it was asked for and yet
be taken for failed; `ReceiveOk` and `ReceiveError` are the handlers of each component,
with what they send next (`Follow`) and when they turn the form on again (`Frees`).
`calls` is a function from places to the requests in flight: a component's load has the
component for its place, a request the user caused one of `Slot`, and what follows a request
takes its place, as its awaits are one chain. `Mounts` is what the components of a page
(`Mounted`) ask for when they appear, `Loads` of each; `Stored` is what the API keeps of
what a component shows. A page that is left takes its requests with it, but for changes
that are on their way (`Gone`).
`Open` is every full load of a page. The dashboard uses a few cards at a time
(`CardSets`), because cards share nothing but the token and the account count. The
three GETs of a dashboard load are one request; row ids are not used twice; the cover
stands for the fields of the protection card.

Worth knowing: adding a goal or a member is not guarded against a second click, and a
late list can overwrite a newer one (`SettledPageIsTrue` speaks of one request at a
time); Enter on the login page sends a second sign-in while the
first is out (`login/page.tsx:113`); the coach locks its input on any error although `WealthCoach.tsx:35` says 403;
the protection card saves its form defaults over a profile that has not loaded; the
onboarding writes 0 for fields left blank; `lcos_onboarded` belongs to the browser, not to
the user; the early warning and the allocation chart are not refreshed when an account
is added.

## 4. Runs

Passing runs. Every property has a mutant in `PROJECT.json`: a plausible bug in one
mapped definition under which the same run fails. The operators marked `FAULT` in the
modules are those bugs; no specification uses them.

| Run | Bounds | What it shows |
|---|---|---|
| `MCBillingUsers` | 2 users, 1 order, 2 requests, captured and failed payments, no crash; 0.9M states | `OrderOwnership`, `ErasedLeavesNothing`, `PastDueHasFailure`, `PaidPlanIsEarned`, `AuditedActivationWasPaid`, and that every step refines the contract (`KeepsContract`) |
| `MCBillingOrders` | 1 user, 2 orders, 1 request, zero and positive price, 1 crash, the clock moves once; 165k states | `PendingMatchesOrder`, `AckedIsSettled`, and under fairness `PaymentTakesEffect`, `EveryEventAcked` |
| `MCAccess` | 3 features (one per tier), one unknown key, 1 call, 2 edits; 159k states | types, `QuietAnswerIsExact`, `StandingOverrideDecides`, `GateFollowsOverride` |
| `MCFamily` | 3 members, 3 requests, 5 changes; 35k states | `DriftHasCause` |
| `MCAccountSync` | 2 reported accounts, 4 ids, 2 syncs, 1 editor; 1.2M states | `DuplicatesBounded`, `CompletedSyncIsComplete`, `ConsentFirst` |
| `MCDebtPayoff` | all pairs of debts over 3 principals, 3 rates, 2 minimums, 3 extras, cap of 12 months; 14k states | `Conservation`, `PayoffOrderIsExact`, `BudgetIsSpent`, `AvalancheTargetsRate`, `Terminates` |
| `MCHousehold` | every pair of 3 kinds of account, with and without profile, debt and goal, one change during a report, one captured row; 262k states | `FiguresAgree`, `WarningsAgree`, `TotalsNest`, `DepositNeverHurts`, and under fairness `CoachAnswers` |
| `MCTools` | the page with 3 fields per form (2 for retirement and insurance) and 3 questions; a program with every function at the boundaries of its formula, plans of up to 3 years that rise by 0, 10, 50 and 100% a year, a return that is no whole percentage after tax, a contribution that is not eligible; 17k states | `OutcomeOfAnswersSent`, `PlanReachesTarget`, `CorpusLasts`, `DeductionsAddUp`, `MixIsWhole` |
| `MCAdminPages` | 2 users, pages of one row, 1 plan, 1 flag, 2 features, every role, 2 requests in flight, 1 change; 1.7M states | `QuietPageIsTrue`, `TrailIsComplete`, `FullAdminIsNotRefused` |
| `MCUserPages` | 5 choices of cards, 2 covers, 2 paid tiers, 3 acts, 2 places for their requests, new acts while fewer than 2 requests are in flight; 0.7M states | `NoUnnoticedDouble`, `ChatAlternates`, `SettledPageIsTrue`, and under fairness `FormsComeBack` |

Why the bounds are enough. Confusing two users takes two; replacing an order takes two
orders; a lost update takes two requests; a half-done handler takes one crash. In
Access a call has three reads, so two edits already fall into two different gaps. Three
requests in Family give a stale write on top of a stale write. Two syncs and two
accounts are the smallest case in which a sync can be half done against another one,
and four ids let both create everything. Two debts are the smallest case with an order;
the bounds include zero principal, zero rate, debts that never clear within the cap and
extras that clear both in a month. The cap is 12 months instead of 1200: it is only
compared with the month. In Household one change falls into every gap of every report;
the amounts lie on both sides of every threshold of the scores that a property speaks
of. Two list pages of one row have a first and a last page, and a page that empties when
a row is erased; two requests in flight overtake each other; one change, by the page or
by somebody else, is enough for a stale row, a record without its change or the reverse,
and a role that changes under an open page. Three acts on the pages are a form sent
twice with something between, and a chat of three turns. Amounts of `MCTools` are small
because the growth is exact: monthly returns of 1/2, 1 and 2 percent would need large
numbers, 600% to 2400% a year need small ones, and the formulas have no threshold in the
rate but zero.

`CHECK_DEADLOCK FALSE` is set where the system may stop: in the billing runs users
may be erased, the orders of the bounds used up and nobody has to do anything; a payoff
plan returns.

Runs that end in a violation, each of one sentence of the repository:

| Run | Sentence | What the code does |
|---|---|---|
| `MCBillingPendingClaim` | `billing.service.ts:67`, pending until the webhook | `tierFor` gives the paid tier to a pending subscription |
| `MCDebtPayoffClaim` | `finance.test.ts:51`, never costs more interest | minimums of cleared debts leave the budget; for 30000 at 24% (minimum 500) and 50000 at 36% (minimum 5000) with 2000 extra, avalanche costs 16924 and 23 months, snowball 15189 and 16 |

Three more divergences are visible in the models without a run of their own. A webhook
between the find and the update of `subscribe` activates the plan that a second
subscribe just wrote, although `billing.service.ts:19` has the webhook confirm payment.
Two syncs that both find nothing both create, although `aa.module.ts:91` keys accounts
by their reference; `DuplicatesBounded` is what holds. The dependents stay out of
lock-step (`family.module.ts:61`) when the count of one request is written after the
sync of a later one; `DriftHasCause` is what holds.

## 5. Fairness

Billing: the continuation of a handler once begun (Node runs a promise whose statement
completed; a crash, bounded by `MaxCrashes`, is the exception) and the delivery of
announced events, which Razorpay repeats until it gets a 2xx (`billing.module.ts`).
Nothing is assumed of users, administrators, the clock or the customer: nobody has to
subscribe or to pay. With an unbounded number of crashes neither property would hold,
and none could.

Household: a report once begun goes on (`WF_vars(Handle)`): queries return, and the call
of the language model ends with a reply or an error, as a client with a timeout does.

UserPages: a request that is on its way is answered or fails (`WF_vars(Network)`), as
`fetch` settles either way; nobody is made to click.

DebtPayoff: weak fairness of `Next`, as the call is one synchronous loop.

## 6. Proofs

All theorems are about arbitrary constants: any sets of users, orders, requests,
features, members, accounts and pages, any number of edits and crashes, under the named
assumptions of the modules (`RazorpayAssumption`, `BillingAssumption`,
`NoSubAssumption`, `EntitlementsAssumption`, `AccessAssumption`, `FamilyAssumption`,
`AccountSyncAssumption`, `DebtAssumption`, `HouseholdAssumption`, `AdminAssumption`,
`UserAssumption`, `ToolsAssumption`),
which TLC evaluates in the runs. The assumptions say that sets of rows are finite, that
rows have the types of their columns,
that the debts of a simulation have no negative amount and whole rates (which no validation
sees to), that the inputs of a tool are those its formula is meant for, and that loads have places of
their own.

**Billing** (`BillingProofs`). The safety properties are not inductive: that an event
finds its own user (`OrderOwnership`) needs that a request about to record an order
holds an order of its user and tier that nobody was shown (`RequestInv`), that no two
requests hold the same one (`RecordUnique`: recording one makes it payable while the other
still believes it is not), that an order shown to a client has a subscription row unless
its owner was erased (`OfferedInv`), that events exist only for such orders
(`IssuedInv`) and that a delivery past its UPDATE was applied (`HookInv`). `IInv` is their
conjunction with the types and the seven safety properties. There is one lemma per
action; the actions that write a row share `WriteRow`, those that leave rows alone share
`QuietStep`, `RequestStep` and `DeliveryStep`. `Invariance` follows, and each property
by one step.

**Refinement** (also `BillingProofs`). `BillingImplementsContract`: initial states map to
initial states and every step to a contract step of one user or to a stutter. It uses
`Invariance` and one more invariant, `ChargedTierInv`: a request on the charged path is
about a paid tier, so asking for payment always names a paid plan. The lemmas are one per
kind of row change (`ActivateMaps`, `CancelMaps`, `RecordMaps`, `ApplyMaps`, `EraseMaps`)
and one for the provider (`CheckoutMaps`).
`ContractGivesEvidence` says what the contract is good for: whoever has a standing has
the evidence for it. `ServiceGivesEvidence` puts the two together: so it is in every state of
`Billing`, mapped onto the contract.

**Access** (`AccessProofs`). `DefaultsAgree`: the two resolvers agree when the plans are
at their defaults. `UpgradeKeepsFeatures`: a higher tier never has fewer features.
`Invariance` has, for each call and key, that an override untouched since the call began
is the one the call read or will read, and, once answered, the one its answer follows
(`RowInv`), and for each gate that its verdict follows the list (`VerdictInv`); from it
`OverridesDecide` and `GatesFollowOverrides`. `QuietAnswersAreExact` has an invariant of
its own (`QuietInv`): while nothing but the global flag was edited, the tables are still those
the call began with, what it has read is what they held, and its answer is resolved from
them. The edits are covered by one lemma, because each of them enters what it touched in
`touched` of every call under way.

**Family** (`SyncProofs`). `DriftHasCause` speaks of quiet states only. Its
strengthening says that a count held by a request is the present number of dependents
if the graph has not changed since (`FreshCount`), and that the version a request
holds is not from the future (`CountedBefore`).

**Account aggregation** (`SyncProofs`). `IInv` says of each sync that it is past the
consent, knows its place in the loop, holds a row of the account it is at, and has
brought every account before it unless the user removed or changed one since
(`SyncInv`); that an edit holds the id of a row (`Targets`); and that the rows of a
reference together with the syncs that found none and are about to create one are never
more than the syncs (`Slots`). `Slots` is why the duplicates are bounded although no key
forbids them: finding nothing reserves a slot, and creating uses it. From `Invariance`
follow `DuplicatesBounded`, `CompletedSyncIsComplete` and `ConsentFirst`, and the types.

**Arithmetic** (`MoneyProofs`). What the other proofs say of sums over any number of rows
rests on lemmas here. The sum of the library is a recursive function on sets chosen by
CHOOSE; that its equations have a solution at all has to be proved, and so does that one
solution is the only one (`IterUnique`, `IterExists`, `SumIsIter`). The induction theorems of
the library take an operator as a parameter, which the provers cannot instantiate; the
lemmas use well-foundedness instead: the sets for which an equation fails are a set of
subsets, and a non-empty one has a smallest member (`SmallestSubset`), from which one
element is removed. From it come the value of a sum after an element more or less
(`SumAdd`, `SumRemove`), its sign and monotonicity, the sum of two functions, over
disjoint sets, over the classes of rows (`SumByClass`) and after one row changed
(`SumChanged`). `NthExact` says that the n-th members of a finite set of numbers are its
members, each once, in order. `PowersExist` and `PowerType` do for powers, by a smallest
exponent, what was done for sums, and `CountingUp` is the same argument as a set that holds
0 and with each number the next one. `Power` squares half the exponent; `PowerUnfold` and
`PowersAgree` show that the function for one exponent is that for a larger one cut off, and
with them `PowerNext`, `PowerAdd` and `PowerTimes` that it is repeated multiplication.
`GainType` and `RateType` give the fraction of a rate a positive denominator and a positive
factor of growth. `RoundIsNear` (half a unit off at most), `RoundMonotone` (the order of
two fractions is kept) and `ScoreAtLeast` are about `Math.round`; `ScaledBounds` and
`RoundingError` carry half a unit through a multiplication, and `Cancel` and `DivideWeak` remove
a common factor, which is what the provers do not find in products of variables.

**Debt payoff** (`CalculatorProofs`). `TypeCorrect`: no balance is ever negative. `MoneyIsConserved`
is inductive with the types: a month adds to both sides what it accrues and pays, as sums
over all debts. `BudgetGoesOut`: the extra pool is spent in the strategy's order; either the
pool is exhausted by the debts before some debt, the last that gets anything, or every
debt gets all it is owed (`ExtraIsSpent`, which rests on the order being strict and total,
`BeforeIsStrict`, so that a first debt exists, `FirstExists`). `AvalanchePaysRateFirst`: a debt
at a higher rate comes before, and the pool passes it only once it is cleared.
`PayoffOrderHolds` needs more than it says (`OrderInv`): what is recorded is exactly what is
at nothing, there are as many entries as debts recorded, hence none twice, and the months
never decrease; the proof follows the entries that one month appends (`RecordExact`,
`OrderGrows`).

**Calculators** (`CalculatorProofs`). `ToolInvariance` (`ToolInv`): a report on show is the
answer to what was submitted, and what was submitted is an input the formula is meant for;
answers that are on their way are the ones submitted. The properties of `Tools` are then
statements about the formulas, for every input.

- `PlansSaveEnough`: saving the instalment of a plan month by month reaches the target, and
  not more than the target, to within half a unit a month. The month-by-month balance (`BalanceAfter`) is
  a recursive function, whose equations are shown to hold by counting up (`BalancesExist`,
  `BalanceNext`). It is linear in the start and in what is added (`BalanceLinear`), can be
  cut into stretches (`BalanceSplit`), and has a closed form when what is added is a
  geometric sequence (`BalanceGeometric`). So the annuity of `planGoal` is what one unit a
  month comes to (`AnnuityIs`), a year of stepped-up instalments is one amount
  (`OneYear`) and the years add up to the sum in `steppedFirstYearSip` (`YearsAddUp`); the
  rest is what rounding one instalment is worth (`RoundedInstalment`).
- `CorporaLast`: drawing the inflated expenses every year uses up the required corpus. The
  balance left is linear in corpus and expenses (`LeftIsLinear`); at the unrounded corpus
  it is nothing (`DrawdownIsExact`, where the real return is a fraction, and zero is a case of
  its own, as in the code); the two amounts are rounded (`RoundedTwice`).
- `MixesAreWhole`: the shares of any portfolio are each within half a unit of their part
  (`SharesAreNear`, `SumOfClasses`), and the equity of a mix falls with age
  (`EquityFalls`).
- `DeductionReportsAddUp` follows from sums over parts of the contributions.
- `OutcomesAreOfWhatWasSent`: the loop of `computeWealthDna` holds, after each step, an
  archetype that leads all before it (`BestExists`, `BestLeads`); that a late reply is not scored on a new
  selection is `ToolInv`.

**Reports** (`HouseholdProofs`). `CoverAgrees` and `DepositRaisesScores` are about
operators: for all amounts, the band of the emergency score is never worse than the light
of the early warning, and cash put aside lowers neither the emergency nor the debt score.
`HouseholdInvariant` (`TypeOK` and `ReadInv`): as long as nothing changed since a report was
asked, every table is either outstanding or was read as it still is; a finished quiet report
therefore speaks of the rows of the moment, in whatever order its queries returned. On it rest
`CoachNamesThePagesFigures` (the two ways of adding up differ by the sign of liabilities
only, and sums of equal terms are equal), `NothingCountsTwice` (the sets of rows behind the
totals are subsets of each other, and the classes partition the owned ones),
`WarningsContradictNothing` and `DepositsNeverHurt` (one changed balance moves every sum
by the same amount or not at all; no sub-score decreases; the weights are not
negative, so the overall score does not either).

**Admin panel** (`AdminProofs`). `FullAdminIsNotRefused` is an action property; its
invariant says that every request the panel still waits for is one that the role it was
drawn for may make, if that is a full admin (`Calls`), and that outside the panel nothing
is waited for, so that a new role cannot inherit an old page's requests (`Away`).
`OfferIsAllowed` compares what the pages offer with the `@Roles` of the controller.

`AuditNamesChanges`: `TrailIsComplete` speaks of states without a request between change and
record. Its strengthening (`TrailInv`) says of the states in between that what differs is
recorded or about to be, by a request that is halfway (`ChangeInv`, unless one failed
there); one's own role is compared with the one the behaviour began with; and that an erasure is recorded before it happens (`ErasureInv`), which makes the
first conjunct of the property hold even when requests fail.

`QuietPagesAreTrue`: `QuietPageIsTrue` speaks of a page with nothing in flight. `QuietInv`
says what makes it come out: what a live load asks for is for the page, or the dialog, that is
open, and a change for one is followed by such a load (`LiveShape`); and as long as one
thing was asked at a time (`Calm`), either the page shows what is stored or a load is
coming, and what a load brings that was read already is what is stored. A page past the end
of a list that shrank is why the conclusion is about pages and totals and not only rows:
`SubSeq` of a listing is empty and the pager says there is a page before.

**User pages** (`PageProofs`). None of the properties of `UserPages` is inductive. `Invariance`
strengthens them with what ties a request to the page that sent it (`IInv`):

- `StateOK`: every request in flight is one that a component of this page sends, or a change
  that a page left behind, and outside `Slot` there are only loads;
- `OneEach`: a form is off only while a request of this page holds it. Of most forms that is
  one request at a time, and the form is off as long as it runs; two are `Resent`: on the
  login page Enter calls `submit` without looking at `busy` (`login/page.tsx:113`), and on
  the billing page another plan may be begun meanwhile, and there the first answer turns the
  form on under the second;
- `TellsAll`: the household was told of every account its form made but one, and that one is of
  a form that has closed or of a request that was already carried out; hence a request that
  was not yet carried out may make one more;
- `Chat`: the conversation sent with a question under way is the one on show and ends with
  the user;
- `Settles`: as long as one thing was asked for at a time, what a component shows is what the
  API keeps, or a request that renews it is under way, and an answer that came back is
  what is kept.

`ActStep` covers every button (`AskSteps`, `SendStep`), `OpenStep` every full load, `ServeStep`
the API, `AnswerStep` and `ErrorStep` the handlers. The case that needs most is an answer that
is followed by a request in its own place (`TakenStep`): the form stays held by the one that
follows. `OneAccountPerError`, `TheChatAlternates` and `SettledPagesAreTrue` follow, and
`BusyFormsAreHeld`: a form is off only while a request is under way that gives it back. That
is the safety half of `FormsComeBack`; that the request ends is fairness.

Only model-checked. Liveness (`PaymentTakesEffect`, `EveryEventAcked`, `Terminates`,
`CoachAnswers`, `FormsComeBack`), which the prover does not cover with fairness and
ENABLED. Every other property of a passing run is a theorem. What the theorems about the
tools say is limited by the model and not by the proofs: rates are whole percentages, taxes
tenths of one, growth is an exact fraction, and a stepped-up plan is over whole years, as
`steppedFirstYearSip` counts them. No module uses RECURSIVE.

## 7. Not modelled

Registration, tokens, one-time codes and password resets, and encryption: the models start with
a user who is signed in, and of the guards only those of the admin API matter to a
property. Functions of the library without a caller (`evaluateBudget`,
`financialIndependenceRatio`, `computeLiquidity`, `capitalGainsTaxMinor`,
`emergencyFundTarget`, `financialFreedomNumber`). The counters of the admin overview, the
contents of a data export, the landing page, toasts, charts and their formatting. The
texts of prompts and replies. Swagger, configuration, seed, migrations and deployment:
I/O and text. Floating-point error in compound growth, which neither tool computes with.
