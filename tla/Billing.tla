------------------------------- MODULE Billing -------------------------------
(***************************************************************************)
(* The subscription lifecycle of apps/api/src/billing/billing.service.ts   *)
(* with the admin operations of admin.service.ts that write the same rows. *)
(*                                                                         *)
(* A handler is a chain of awaits.  Each SQL statement and each call to    *)
(* Razorpay is one atomic step; between two steps any other request, in    *)
(* this process or another instance, may run, and the instance may die.    *)
(* request[r] and hook[e] hold what a suspended handler still remembers.   *)
(***************************************************************************)
EXTENDS Naturals, Razorpay

CONSTANTS Request,       \* concurrent authenticated requests
          NoOrder,       \* providerSubscriptionId IS NULL
          NoSub,         \* the user has no Subscription row
          AuditKept,     \* audit actions whose entries the model retains
          RazorpayLive,  \* RazorpayService.live: live keys and not sandbox
          Prices,        \* values Plan.priceMinor may take
          Period,        \* PERIOD_MS, in clock units
          MaxTime,       \* bound on the clock
          MaxCrashes     \* bound on handlers killed half way

ASSUME BillingAssumption ==
    /\ NoOrder \notin Order
    /\ RazorpayLive \in BOOLEAN
    /\ Prices \subseteq Nat
    /\ Period \in Nat \ {0}
    /\ MaxTime \in Nat
    /\ MaxCrashes \in Nat
    /\ Tier \subseteq {"free", "premium", "family_cfo"}

\* The price of the free plan is never read.
PaidTier == Tier \ {"free"}
Status   == {"active", "past_due", "canceled", "trialing"}
NoTime == 0   \* currentPeriodEnd IS NULL: no period ends at the first instant
SubRow == [plan : Tier, status : Status, order : Order \cup {NoOrder},
           periodEnd : Nat]

ASSUME NoSubAssumption == NoSub \notin SubRow

VARIABLES users,      \* User rows that exist
          sub,        \* Subscription row of each user
          priceMinor, \* Plan.priceMinor by tier
          request,    \* authenticated requests between two awaits
          hook,       \* webhook deliveries between two awaits
          audit,      \* AuditLog entries, without actor and time
          now,        \* the clock
          crashes,    \* handlers killed so far
          granted,    \* HISTORY: (user, paid tier) activated without an order
          applied     \* HISTORY: events whose UPDATE was executed

vars == <<rzpVars, users, sub, priceMinor, request, hook, audit, now, crashes,
          granted, applied>>
------------------------------------------------------------------------------
\* The entries the handlers write at their end, and all the entries.
Action == {"", "subscription.canceled", "user.subscription_set", "plan.update"}
LoggedAction == Action \cup {"user.erase", "subscription.activated",
                             "subscription.payment_failed"}

PC == {"idle", "activate", "charge", "record", "set", "erase", "audit"}
RequestRow == [pc : PC, user : User \cup {Nobody}, tier : Tier,
               order : Order \cup {NoOrder}, action : Action]
HookRow == [pc : {"idle", "found", "written"}, user : User \cup {Nobody}]

IdleRequest == [pc |-> "idle", user |-> Nobody, tier |-> "free",
                order |-> NoOrder, action |-> ""]
IdleHook    == [pc |-> "idle", user |-> Nobody]

AuditEntry == [action : LoggedAction, entity : User \cup Tier]

\* Every variable has its type; what relates them is below.
TypeOK ==
    /\ RzpTypeOK
    /\ users \subseteq User
    /\ sub \in [User -> SubRow \cup {NoSub}]
    /\ priceMinor \in [PaidTier -> Prices]
    /\ request \in [Request -> RequestRow]
    /\ hook \in [Event -> HookRow]
    /\ audit \subseteq AuditEntry
    /\ now \in Nat
    /\ crashes \in Nat
    /\ granted \subseteq User \X Tier
    /\ applied \subseteq issued

Init ==
    /\ RzpInit
    /\ users = User
    /\ sub = [u \in User |-> NoSub]
    /\ priceMinor \in [PaidTier -> Prices]
    /\ request = [r \in Request |-> IdleRequest]
    /\ hook = [e \in Event |-> IdleHook]
    /\ audit = {}
    /\ now = 0
    /\ crashes = 0
    /\ granted = {}
    /\ applied = {}
------------------------------------------------------------------------------
(* Statements on the Subscription table. *)

HasSub(u) == sub[u] # NoSub

\* The tier whose features the user gets: only `canceled` falls back to free.
TierFor(u) ==
    IF ~HasSub(u) \/ sub[u].status = "canceled" THEN "free" ELSE sub[u].plan

\* subscription.upsert of the immediate paths: the order column is left alone.
ActivateRow(u, t) ==
    sub' = [sub EXCEPT ![u] =
        [plan |-> t, status |-> "active", periodEnd |-> now + Period,
         order |-> IF HasSub(u) THEN sub[u].order ELSE NoOrder]]

\* FAULT: the upsert's update branch forgets the order column.
PendingRowKeepsOrder(u, t, o) ==
    sub' = [sub EXCEPT ![u] =
        [plan |-> t, status |-> "trialing",
         order |-> IF HasSub(u) THEN sub[u].order ELSE o,
         periodEnd |-> IF HasSub(u) THEN sub[u].periodEnd ELSE NoTime]]

\* subscription.upsert of the charged path: the period column is left alone.
PendingRow(u, t, o) ==
    sub' = [sub EXCEPT ![u] =
        [plan |-> t, status |-> "trialing", order |-> o,
         periodEnd |-> IF HasSub(u) THEN sub[u].periodEnd ELSE NoTime]]

\* The history of paid tiers handed out without an order.
Grant(u, t) == granted' = IF t = "free" THEN granted ELSE granted \cup {<<u, t>>}

\* update of the status and period columns.
WithStatus(row, s, end) ==
    [plan |-> row.plan, status |-> s, order |-> row.order, periodEnd |-> end]

\* FAULT: updateMany without the user in its `where`.
CancelRowEverybody(u) ==
    sub' = [v \in User |-> IF HasSub(v)
                           THEN WithStatus(sub[v], "canceled", sub[v].periodEnd)
                           ELSE NoSub]

\* updateMany({ status: 'canceled' }): no row, no effect.
CancelRow(u) ==
    sub' = IF HasSub(u)
           THEN [sub EXCEPT ![u] = WithStatus(@, "canceled", @.periodEnd)] ELSE sub

\* auditLog.create: one more entry.
Log(a, x) == audit' = IF a \in AuditKept
                      THEN audit \cup {[action |-> a, entity |-> x]} ELSE audit

Suspend(r, pc, u, t, o, a) ==
    request' = [request EXCEPT ![r] = [pc |-> pc, user |-> u, tier |-> t,
                                       order |-> o, action |-> a]]
Finish(r) == request' = [request EXCEPT ![r] = IdleRequest]
At(r, pc) == request[r].pc = pc
------------------------------------------------------------------------------
(* POST /billing/subscribe *)

GoLive(t) == RazorpayLive /\ t # "free" /\ priceMinor[t] > 0

\* The caller's User row was checked by the JWT strategy; the plan is read.
SubscribeStart(r, u, t) ==
    /\ At(r, "idle")
    /\ u \in users
    /\ Suspend(r, IF GoLive(t) THEN "charge" ELSE "activate", u, t, NoOrder, "")
    /\ UNCHANGED <<rzpVars, users, sub, priceMinor, hook, audit, now, crashes,
                   granted, applied>>

\* The upsert of the immediate path; a vanished user fails its foreign key.
SubscribeActivate(r) ==
    LET u == request[r].user
        t == request[r].tier
    IN  /\ At(r, "activate")
        /\ \/ /\ u \in users
              /\ ActivateRow(u, t)
              /\ Grant(u, t)
           \/ /\ u \notin users
              /\ UNCHANGED <<sub, granted>>
        /\ Finish(r)
        /\ UNCHANGED <<rzpVars, users, priceMinor, hook, audit, now, crashes,
                       applied>>

\* createOrder: a fresh order, or a non-2xx answer that fails the request.
SubscribeCharge(r) ==
    LET u == request[r].user
        t == request[r].tier
    IN  /\ At(r, "charge")
        /\ \/ \E o \in Order : /\ CreateOrder(o, u, t)
                               /\ Suspend(r, "record", u, t, o, "")
           \/ Finish(r) /\ UNCHANGED rzpVars
        /\ UNCHANGED <<users, sub, priceMinor, hook, audit, now, crashes,
                       granted, applied>>

\* FAULT: the Subscription table has no foreign key to the user.
SubscribeRecordUnchecked(r) ==
    LET u == request[r].user
        o == request[r].order
    IN  /\ At(r, "record")
        /\ PendingRow(u, request[r].tier, o)
        /\ Offer(o)
        /\ Finish(r)
        /\ UNCHANGED <<issued, acked, users, priceMinor, hook, audit, now,
                       crashes, granted, applied>>

\* The upsert of the charged path, after which the order id is returned.
SubscribeRecord(r) ==
    LET u == request[r].user
        o == request[r].order
    IN  /\ At(r, "record")
        /\ \/ /\ u \in users
              /\ PendingRow(u, request[r].tier, o)
              /\ Offer(o)
           \/ /\ u \notin users
              /\ UNCHANGED <<sub, order>>
        /\ Finish(r)
        /\ UNCHANGED <<issued, acked, users, priceMinor, hook, audit, now,
                       crashes, granted, applied>>
------------------------------------------------------------------------------
(* POST /billing/cancel and the admin operations on the same rows *)

Cancel(r, u) ==
    /\ At(r, "idle")
    /\ u \in users
    /\ CancelRow(u)
    /\ Suspend(r, "audit", u, "free", NoOrder, "subscription.canceled")
    /\ UNCHANGED <<rzpVars, users, priceMinor, hook, audit, now, crashes,
                   granted, applied>>

\* setUserSubscription: the user row is looked up first ...
AdminSetStart(r, u, t) ==
    /\ At(r, "idle")
    /\ u \in users
    /\ Suspend(r, "set", u, t, NoOrder, "")
    /\ UNCHANGED <<rzpVars, users, sub, priceMinor, hook, audit, now, crashes,
                   granted, applied>>

\* ... then `free` cancels and a paid tier activates, bypassing payment.
AdminSetWrite(r) ==
    LET u == request[r].user
        t == request[r].tier
    IN  /\ At(r, "set")
        /\ \/ /\ t = "free"
              /\ CancelRow(u)
              /\ Suspend(r, "audit", u, t, NoOrder, "user.subscription_set")
              /\ UNCHANGED granted
           \/ /\ t # "free" /\ u \in users
              /\ ActivateRow(u, t)
              /\ Suspend(r, "audit", u, t, NoOrder, "user.subscription_set")
              /\ Grant(u, t)
           \/ /\ t # "free" /\ u \notin users
              /\ Finish(r)
              /\ UNCHANGED <<sub, granted>>
        /\ UNCHANGED <<rzpVars, users, priceMinor, hook, audit, now, crashes,
                       applied>>

\* updatePlan, as far as billing reads it: the price.
AdminSetPrice(r, t, p) ==
    /\ At(r, "idle")
    /\ priceMinor' = [priceMinor EXCEPT ![t] = p]
    /\ Suspend(r, "audit", Nobody, t, NoOrder, "plan.update")
    /\ UNCHANGED <<rzpVars, users, sub, hook, audit, now, crashes, granted,
                   applied>>

\* eraseUser logs first ...
AdminEraseStart(r, u) ==
    /\ At(r, "idle")
    /\ Log("user.erase", u)
    /\ Suspend(r, "erase", u, "free", NoOrder, "")
    /\ UNCHANGED <<rzpVars, users, sub, priceMinor, hook, now, crashes, granted,
                   applied>>

\* ... and deletes after: the subscription goes with the user (ON DELETE CASCADE).
AdminEraseDelete(r) ==
    LET u == request[r].user
    IN  /\ At(r, "erase")
        /\ users' = users \ {u}
        /\ sub' = [sub EXCEPT ![u] = NoSub]
        /\ Finish(r)
        /\ UNCHANGED <<rzpVars, priceMinor, hook, audit, now, crashes, granted,
                       applied>>

\* The trailing audit.log of a handler; the caller's own entry references its
\* User row, so it fails once that row is gone.
AuditWrite(r) ==
    LET a == request[r].action
        u == request[r].user
    IN  /\ At(r, "audit")
        /\ \/ a = "plan.update" /\ Log(a, request[r].tier)
           \/ a = "user.subscription_set" /\ Log(a, u)
           \/ a = "subscription.canceled" /\ u \in users /\ Log(a, u)
           \/ a = "subscription.canceled" /\ u \notin users /\ UNCHANGED audit
        /\ Finish(r)
        /\ UNCHANGED <<rzpVars, users, sub, priceMinor, hook, now, crashes,
                       granted, applied>>
------------------------------------------------------------------------------
(* POST /billing/razorpay/webhook: applyWebhookEvent on a verified event *)

\* FAULT: `where` without the order id matches whatever row comes first.
WebhookFindAny(e) ==
    /\ e \in issued
    /\ hook[e].pc = "idle"
    /\ \E u \in User : /\ HasSub(u)
                       /\ hook' = [hook EXCEPT ![e] = [pc |-> "found", user |-> u]]
    /\ UNCHANGED <<rzpVars, users, sub, priceMinor, request, audit, now,
                   crashes, granted, applied>>

\* FAULT: the controller answers 2xx before it works on the event.
WebhookFindAckFirst(e) ==
    /\ e \in issued
    /\ hook[e].pc = "idle"
    /\ Acknowledge(e)
    /\ \/ \E u \in User :
            /\ HasSub(u)
            /\ sub[u].order = e.order
            /\ hook' = [hook EXCEPT ![e] = [pc |-> "found", user |-> u]]
       \/ /\ \A u \in User : HasSub(u) => sub[u].order # e.order
          /\ UNCHANGED hook
    /\ UNCHANGED <<order, issued, users, sub, priceMinor, request, audit, now,
                   crashes, granted, applied>>

\* FAULT: only subscriptions still `trialing` are looked up.
WebhookFindTrialing(e) ==
    /\ e \in issued
    /\ hook[e].pc = "idle"
    /\ \/ \E u \in User :
            /\ HasSub(u)
            /\ sub[u].order = e.order
            /\ sub[u].status = "trialing"
            /\ hook' = [hook EXCEPT ![e] = [pc |-> "found", user |-> u]]
            /\ UNCHANGED acked
       \/ /\ \A u \in User :
                 HasSub(u) /\ sub[u].status = "trialing" => sub[u].order # e.order
          /\ Acknowledge(e)
          /\ UNCHANGED hook
    /\ UNCHANGED <<order, issued, users, sub, priceMinor, request, audit, now,
                   crashes, granted, applied>>

\* FAULT: an unknown order is an error, answered with 5xx.
WebhookFindOrThrow(e) ==
    /\ e \in issued
    /\ hook[e].pc = "idle"
    /\ \E u \in User :
            /\ HasSub(u)
            /\ sub[u].order = e.order
            /\ hook' = [hook EXCEPT ![e] = [pc |-> "found", user |-> u]]
    /\ UNCHANGED <<rzpVars, users, sub, priceMinor, request, audit, now,
                   crashes, granted, applied>>

\* findFirst by order id.  An unknown order is ignored, and acknowledged.
WebhookFind(e) ==
    /\ e \in issued
    /\ hook[e].pc = "idle"
    /\ \/ \E u \in User :
            /\ HasSub(u)
            /\ sub[u].order = e.order
            /\ hook' = [hook EXCEPT ![e] = [pc |-> "found", user |-> u]]
            /\ UNCHANGED acked
       \/ /\ \A u \in User : HasSub(u) => sub[u].order # e.order
          /\ Acknowledge(e)
          /\ UNCHANGED hook
    /\ UNCHANGED <<order, issued, users, sub, priceMinor, request, audit, now,
                   crashes, granted, applied>>

\* FAULT: every event about a known order activates.
AppliedAlways(row, kind) ==
    WithStatus(row, "active", now + Period)

\* FAULT: payment.captured is taken for a failure.
AppliedOrderOnly(row, kind) ==
    IF kind = "order.paid"
    THEN WithStatus(row, "active", now + Period)
    ELSE WithStatus(row, "past_due", row.periodEnd)

\* The row an event of this kind leaves behind.
Applied(row, kind) ==
    IF kind \in PaidKind
    THEN WithStatus(row, "active", now + Period)
    ELSE WithStatus(row, "past_due", row.periodEnd)

\* update by subscription id: a deleted row makes the delivery fail.
WebhookApply(e) ==
    LET u == hook[e].user
    IN  /\ hook[e].pc = "found"
        /\ \/ /\ HasSub(u)
              /\ sub' = [sub EXCEPT ![u] = Applied(@, e.kind)]
              /\ applied' = applied \cup {e}
              /\ hook' = [hook EXCEPT ![e] = [pc |-> "written", user |-> u]]
           \/ /\ ~HasSub(u)
              /\ hook' = [hook EXCEPT ![e] = IdleHook]
              /\ UNCHANGED <<sub, applied>>
        /\ UNCHANGED <<rzpVars, users, priceMinor, request, audit, now, crashes,
                       granted>>

\* FAULT: one action name for every outcome.
WebhookActionSame(kind) == "subscription.activated"

WebhookAction(kind) ==
    IF kind \in PaidKind THEN "subscription.activated"
    ELSE "subscription.payment_failed"

\* audit.log in the name of the subscriber, then 2xx; without the User row the
\* entry fails its foreign key, the answer is 500 and Razorpay will retry.
WebhookAudit(e) ==
    LET u == hook[e].user
    IN  /\ hook[e].pc = "written"
        /\ \/ /\ u \in users
              /\ Log(WebhookAction(e.kind), u)
              /\ Acknowledge(e)
           \/ /\ u \notin users
              /\ UNCHANGED <<audit, acked>>
        /\ hook' = [hook EXCEPT ![e] = IdleHook]
        /\ UNCHANGED <<order, issued, users, sub, priceMinor, request, now,
                       crashes, granted, applied>>
------------------------------------------------------------------------------
(* The environment *)

\* The instance running a handler dies: what was written stays written.
CrashRequest(r) ==
    /\ ~At(r, "idle")
    /\ crashes < MaxCrashes
    /\ crashes' = crashes + 1
    /\ Finish(r)
    /\ UNCHANGED <<rzpVars, users, sub, priceMinor, hook, audit, now, granted,
                   applied>>

CrashHook(e) ==
    /\ hook[e].pc # "idle"
    /\ crashes < MaxCrashes
    /\ crashes' = crashes + 1
    /\ hook' = [hook EXCEPT ![e] = IdleHook]
    /\ UNCHANGED <<rzpVars, users, sub, priceMinor, request, audit, now, granted,
                   applied>>

Checkout(o) ==
    /\ Capture(o) \/ FailAttempt(o)
    /\ UNCHANGED <<users, sub, priceMinor, request, hook, audit, now, crashes,
                   granted, applied>>

Tick ==
    /\ now < MaxTime
    /\ now' = now + 1
    /\ UNCHANGED <<rzpVars, users, sub, priceMinor, request, hook, audit,
                   crashes, granted, applied>>

Handle(r) ==
    \/ SubscribeActivate(r) \/ SubscribeCharge(r) \/ SubscribeRecord(r)
    \/ AdminSetWrite(r) \/ AdminEraseDelete(r) \/ AuditWrite(r)

Arrive(r) ==
    \/ \E u \in User :
        \/ Cancel(r, u)
        \/ AdminEraseStart(r, u)
        \/ \E t \in Tier : SubscribeStart(r, u, t) \/ AdminSetStart(r, u, t)
    \/ \E t \in PaidTier, p \in Prices : AdminSetPrice(r, t, p)

Webhook(e) == WebhookFind(e) \/ WebhookApply(e) \/ WebhookAudit(e)

Next ==
    \/ \E r \in Request : Arrive(r) \/ Handle(r) \/ CrashRequest(r)
    \/ \E e \in Event : Webhook(e) \/ CrashHook(e)
    \/ \E o \in Order : Checkout(o)
    \/ Tick

Spec == Init /\ [][Next]_vars

\* A started handler runs on unless its instance dies, and Razorpay delivers
\* an event again until it is answered with 2xx.
Fairness ==
    /\ \A r \in Request : WF_vars(Handle(r))
    /\ \A e \in Event : /\ WF_vars(e \notin acked /\ WebhookFind(e))
                        /\ WF_vars(WebhookApply(e))
                        /\ WF_vars(WebhookAudit(e))

FairSpec == Spec /\ Fairness
------------------------------------------------------------------------------
(* Properties *)

\* The order recorded on a subscription, and the row a webhook delivery is
\* about to update, belong to the user that opened the order: a payment never
\* touches anybody else's subscription (findFirst on a column that is neither
\* unique nor NOT NULL).
OrderOwnership ==
    /\ \A u \in User :
          HasSub(u) /\ sub[u].order # NoOrder => order[sub[u].order].user = u
    /\ \A e \in Event : hook[e].pc # "idle" => order[e.order].user = hook[e].user

\* A paid plan is active only for a user with a settled order, or whom an admin
\* or a zero price activated without one.
PaidPlanIsEarned ==
    \A u \in User :
        HasSub(u) /\ sub[u].status = "active" /\ sub[u].plan # "free" =>
            \/ \E o \in Order : order[o].user = u /\ Captured(o)
            \/ <<u, sub[u].plan>> \in granted

\* past_due is only ever the consequence of a declined attempt on an order of
\* the same user.
PastDueHasFailure ==
    \A u \in User :
        HasSub(u) /\ sub[u].status = "past_due" =>
            \E o \in Order : order[o].user = u /\ FailedOnce(o)

\* A subscription waiting for payment waits for the order of its own plan,
\* whatever cancellations, comps and late webhooks came in between.
PendingMatchesOrder ==
    \A u \in User :
        HasSub(u) /\ sub[u].status = "trialing" =>
            /\ sub[u].order # NoOrder
            /\ order[sub[u].order].tier = sub[u].plan

\* Erasure is final: requests that were under way when the user was deleted
\* leave no subscription behind.
ErasedLeavesNothing == \A u \in User : u \notin users => ~HasSub(u)

\* Razorpay stops announcing a payment once it is acknowledged.  By then it was
\* applied, or its order had been replaced by a newer one, or the user erased.
AckedIsSettled ==
    \A e \in acked :
        \/ e \in applied
        \/ order[e.order].user \notin users
        \/ sub[order[e.order].user].order # e.order

\* The log never claims an activation that no payment stands behind.
AuditedActivationWasPaid ==
    \A u \in User :
        [action |-> "subscription.activated", entity |-> u] \in audit =>
            \E o \in Order : order[o].user = u /\ Captured(o)

\* The payment of o is dealt with: its UPDATE has activated the subscription, or
\* o was replaced by a newer order, or the user was erased.
Settled(o) ==
    LET u == order[o].user
    IN  \/ \E e \in applied : e.order = o /\ e.kind \in PaidKind
        \/ u \notin users
        \/ IF HasSub(u) THEN sub[u].order # o ELSE FALSE

\* Every payment the provider settles is eventually dealt with, whatever crashes,
\* cancellations and declined attempts its webhooks race with.
PaymentTakesEffect == \A o \in Order : Captured(o) ~> Settled(o)

\* Every announcement is eventually acknowledged, so Razorpay stops retrying.
EveryEventAcked == \A e \in Event : e \in issued ~> e \in acked
------------------------------------------------------------------------------
(* What the handlers rely on: with TypeOK and the safety properties above, the *)
(* inductive invariant.                                                        *)

\* A suspended request remembers its user; one about to record an order holds an
\* order opened for that user and tier and not yet shown to the client.
RequestInv ==
    \A r \in Request :
        /\ request[r].pc \notin {"idle", "audit"} => request[r].user \in User
        /\ At(r, "audit") => \/ request[r].user \in User
                             \/ request[r].action = "plan.update"
        /\ At(r, "record") =>
              /\ request[r].order \in Order
              /\ order[request[r].order].user = request[r].user
              /\ order[request[r].order].tier = request[r].tier
              /\ ~order[request[r].order].offered

\* No two requests hold the same order.
RecordUnique ==
    \A r1, r2 \in Request :
        At(r1, "record") /\ At(r2, "record") /\ r1 # r2 =>
            request[r1].order # request[r2].order

\* An order shown to a client is recorded: its owner has a subscription row, or
\* no row at all any more.
OfferedInv ==
    \A o \in Order :
        order[o].offered =>
            /\ Opened(o)
            /\ order[o].user \in users => HasSub(order[o].user)

IssuedInv == \A e \in issued : order[e.order].offered

\* A delivery works on an announced event; once past its UPDATE, it was applied.
HookInv ==
    \A e \in Event :
        /\ hook[e].pc # "idle" => e \in issued
        /\ hook[e].pc = "written" => e \in applied

SafetyInv ==
    /\ OrderOwnership
    /\ PaidPlanIsEarned
    /\ PastDueHasFailure
    /\ PendingMatchesOrder
    /\ ErasedLeavesNothing
    /\ AckedIsSettled
    /\ AuditedActivationWasPaid

IInv == /\ TypeOK /\ SafetyInv
        /\ RequestInv /\ RecordUnique /\ OfferedInv /\ IssuedInv /\ HookInv
------------------------------------------------------------------------------
(* Claims the repository makes that the code does not keep. *)

\* billing.service.ts:66-68: in live mode "the subscription is left pending
\* until the webhook confirms payment": without a confirmed payment or a grant
\* the user stays on the free tier.
PendingGivesNoPaidTier ==
    \A u \in User :
        TierFor(u) # "free" =>
            \/ \E o \in Order : order[o].user = u /\ Captured(o)
            \/ \E t \in Tier : <<u, t>> \in granted
=============================================================================
