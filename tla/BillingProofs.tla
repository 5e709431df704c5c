---------------------------- MODULE BillingProofs ----------------------------
(***************************************************************************)
(* IInv of Billing is inductive, for any sets of users, orders, tiers and  *)
(* concurrent requests, any prices and any number of crashes; and every    *)
(* step of the service is a step, or a stutter, of SubscriptionContract.   *)
(***************************************************************************)
EXTENDS BillingRefinement, TLAPS

\* A subscription row built column by column is a subscription row.
LEMMA SubRowType ==
    ASSUME NEW p \in Tier, NEW s \in Status, NEW o \in Order \cup {NoOrder},
           NEW end \in Nat
    PROVE  [plan |-> p, status |-> s, order |-> o, periodEnd |-> end] \in SubRow
  BY DEF SubRow

\* The columns of an existing row have the types of the schema.
LEMMA SubIsRow ==
    ASSUME TypeOK, NEW u \in User, HasSub(u)
    PROVE  /\ sub[u] \in SubRow
           /\ sub[u].plan \in Tier
           /\ sub[u].status \in Status
           /\ sub[u].order \in Order \cup {NoOrder}
           /\ sub[u].periodEnd \in Nat
  BY DEF TypeOK, HasSub, SubRow

\* Before the first request nothing is subscribed, ordered or announced.
LEMMA InitInv == Init => IInv
  <1> SUFFICES ASSUME Init PROVE IInv
      OBVIOUS
  <1> USE RazorpayAssumption, BillingAssumption DEF Init, RzpInit, IdleRequest, IdleHook
  <1>1. TypeOK
    BY DEF TypeOK, RzpTypeOK, OrderRow, RequestRow, Action, PC, HookRow, Event
  <1>2. SafetyInv
    BY DEF SafetyInv, OrderOwnership, PaidPlanIsEarned, PastDueHasFailure,
           PendingMatchesOrder, ErasedLeavesNothing, AckedIsSettled,
           AuditedActivationWasPaid, HasSub
  <1>3. RequestInv /\ RecordUnique /\ OfferedInv /\ IssuedInv /\ HookInv
    BY DEF RequestInv, RecordUnique, OfferedInv, IssuedInv, HookInv, At
  <1>4. QED
    BY <1>1, <1>2, <1>3 DEF IInv

(***************************************************************************)
(* Steps that leave orders, events, subscriptions and deliveries alone.    *)
(***************************************************************************)
\* A step that writes no order, event, subscription or delivery keeps every
\* safety property and what is known of the deliveries under way.
LEMMA QuietStep ==
    ASSUME IInv,
           UNCHANGED <<rzpVars, users, sub, hook, granted, applied>>,
           \A u \in User :
               [action |-> "subscription.activated", entity |-> u] \in audit'
               => [action |-> "subscription.activated", entity |-> u] \in audit
    PROVE  SafetyInv' /\ OfferedInv' /\ IssuedInv' /\ HookInv'
  <1> USE DEF IInv, SafetyInv, rzpVars
  <1>1. OrderOwnership'
    BY DEF OrderOwnership, HasSub
  <1>2. PaidPlanIsEarned'
    BY DEF PaidPlanIsEarned, HasSub, Captured
  <1>3. PastDueHasFailure'
    BY DEF PastDueHasFailure, HasSub, FailedOnce
  <1>4. PendingMatchesOrder' /\ ErasedLeavesNothing' /\ AckedIsSettled'
    BY DEF PendingMatchesOrder, ErasedLeavesNothing, AckedIsSettled, HasSub
  <1>5. AuditedActivationWasPaid'
    BY DEF AuditedActivationWasPaid, Captured
  <1>6. OfferedInv' /\ IssuedInv' /\ HookInv'
    BY DEF OfferedInv, IssuedInv, HookInv, Opened, HasSub
  <1>7. QED
    BY <1>1, <1>2, <1>3, <1>4, <1>5, <1>6

\* A request that is suspended anywhere but before recording an order, or that
\* ends, keeps the other requests' facts.
LEMMA RequestStep ==
    ASSUME IInv, UNCHANGED order, NEW r \in Request, NEW q \in RequestRow,
           request' = [request EXCEPT ![r] = q],
           q.pc # "record",
           q.pc \notin {"idle", "audit"} => q.user \in User,
           q.pc = "audit" => q.user \in User \/ q.action = "plan.update"
    PROVE  RequestInv' /\ RecordUnique' /\ (request \in [Request -> RequestRow])'
  <1> USE DEF IInv, TypeOK, RequestRow
  <1>1. (request \in [Request -> RequestRow])'
    OBVIOUS
  <1>2. RequestInv'
    BY DEF RequestInv, At
  <1>3. RecordUnique'
    BY DEF RecordUnique, At
  <1>4. QED
    BY <1>1, <1>2, <1>3

\* An idle handler is a handler.
LEMMA IdleRequestType == IdleRequest \in RequestRow
  BY RazorpayAssumption DEF IdleRequest, RequestRow, PC, Action

\* A handler that answers keeps what is known of the others.
LEMMA FinishStep ==
    ASSUME IInv, UNCHANGED order, NEW r \in Request, Finish(r)
    PROVE  RequestInv' /\ RecordUnique' /\ (request \in [Request -> RequestRow])'
  BY RequestStep, IdleRequestType DEF Finish, IdleRequest

\* A handler that awaits the next statement, other than the upsert of a live
\* order, keeps what is known of the others.
LEMMA SuspendStep ==
    ASSUME IInv, UNCHANGED order, NEW r \in Request, NEW pc \in PC \ {"record"},
           NEW u \in User \cup {Nobody}, NEW t \in Tier,
           NEW o \in Order \cup {NoOrder}, NEW a \in Action,
           Suspend(r, pc, u, t, o, a),
           u \in User \/ (pc = "audit" /\ a = "plan.update")
    PROVE  RequestInv' /\ RecordUnique' /\ (request \in [Request -> RequestRow])'
  <1> DEFINE q == [pc |-> pc, user |-> u, tier |-> t, order |-> o, action |-> a]
  <1>1. q \in RequestRow
    BY DEF RequestRow
  <1>2. /\ q.pc # "record"
        /\ q.pc \notin {"idle", "audit"} => q.user \in User
        /\ q.pc = "audit" => q.user \in User \/ q.action = "plan.update"
    OBVIOUS
  <1> HIDE DEF q
  <1>3. request' = [request EXCEPT ![r] = q]
    BY DEF Suspend, q
  <1>4. QED
    BY <1>1, <1>2, <1>3, RequestStep

\* The entry of a user action is typed; so is the log it extends.
LEMMA LogType ==
    ASSUME TypeOK, NEW a \in LoggedAction, NEW x \in User \cup Tier, Log(a, x)
    PROVE  audit' \subseteq AuditEntry
  BY DEF TypeOK, AuditEntry, Log

\* subscribe up to its first decision: live order or immediate activation.
LEMMA StepSubscribeStart ==
    ASSUME IInv, NEW r \in Request, NEW u \in User, NEW t \in Tier,
           SubscribeStart(r, u, t)
    PROVE  IInv'
  <1> USE DEF SubscribeStart, rzpVars
  <1>1. SafetyInv' /\ OfferedInv' /\ IssuedInv' /\ HookInv'
    BY QuietStep
  <1>2. RequestInv' /\ RecordUnique' /\ (request \in [Request -> RequestRow])'
    <2>1. CASE GoLive(t)
      BY <2>1, SuspendStep DEF PC, Action
    <2>2. CASE ~GoLive(t)
      BY <2>2, SuspendStep DEF PC, Action
    <2>3. QED
      BY <2>1, <2>2
  <1>3. TypeOK'
    BY <1>2 DEF IInv, TypeOK, RzpTypeOK
  <1>4. QED
    BY <1>1, <1>2, <1>3 DEF IInv

\* setUserSubscription up to the look-up of the user.
LEMMA StepAdminSetStart ==
    ASSUME IInv, NEW r \in Request, NEW u \in User, NEW t \in Tier,
           AdminSetStart(r, u, t)
    PROVE  IInv'
  <1> USE DEF AdminSetStart, rzpVars
  <1>1. SafetyInv' /\ OfferedInv' /\ IssuedInv' /\ HookInv'
    BY QuietStep
  <1>2. RequestInv' /\ RecordUnique' /\ (request \in [Request -> RequestRow])'
    BY SuspendStep DEF PC, Action
  <1>3. TypeOK'
    BY <1>2 DEF IInv, TypeOK, RzpTypeOK
  <1>4. QED
    BY <1>1, <1>2, <1>3 DEF IInv

\* updatePlan changes a price, and nothing that was ordered.
LEMMA StepAdminSetPrice ==
    ASSUME IInv, NEW r \in Request, NEW t \in PaidTier, NEW p \in Prices,
           AdminSetPrice(r, t, p)
    PROVE  IInv'
  <1> USE DEF AdminSetPrice, rzpVars
  <1>1. SafetyInv' /\ OfferedInv' /\ IssuedInv' /\ HookInv'
    BY QuietStep
  <1>2. RequestInv' /\ RecordUnique' /\ (request \in [Request -> RequestRow])'
    BY SuspendStep DEF PC, Action, PaidTier
  <1>3. TypeOK'
    BY <1>2 DEF IInv, TypeOK, RzpTypeOK
  <1>4. QED
    BY <1>1, <1>2, <1>3 DEF IInv

\* eraseUser up to the delete.
LEMMA StepAdminEraseStart ==
    ASSUME IInv, NEW r \in Request, NEW u \in User, AdminEraseStart(r, u)
    PROVE  IInv'
  <1> USE DEF AdminEraseStart, rzpVars
  <1>1. SafetyInv' /\ OfferedInv' /\ IssuedInv' /\ HookInv'
    BY QuietStep DEF Log
  <1>2. RequestInv' /\ RecordUnique' /\ (request \in [Request -> RequestRow])'
    BY SuspendStep, RazorpayAssumption DEF PC, Action
  <1>3. audit' \subseteq AuditEntry
    BY LogType DEF IInv, LoggedAction
  <1>4. TypeOK'
    BY <1>2, <1>3 DEF IInv, TypeOK, RzpTypeOK
  <1>5. QED
    BY <1>1, <1>2, <1>4 DEF IInv

\* The audit entry of a user or admin action.
LEMMA StepAuditWrite ==
    ASSUME IInv, NEW r \in Request, AuditWrite(r)
    PROVE  IInv'
  <1> USE DEF AuditWrite, rzpVars
  <1>1. SafetyInv' /\ OfferedInv' /\ IssuedInv' /\ HookInv'
    BY QuietStep DEF Log
  <1>2. RequestInv' /\ RecordUnique' /\ (request \in [Request -> RequestRow])'
    BY FinishStep
  <1>3. request[r] \in RequestRow
    BY DEF IInv, TypeOK
  <1>4. request[r].action # "plan.update" => request[r].user \in User
    BY DEF IInv, RequestInv, At
  <1>5. audit' \subseteq AuditEntry
    BY <1>3, <1>4, LogType DEF IInv, TypeOK, LoggedAction, Action, RequestRow
  <1>6. TypeOK'
    BY <1>2, <1>5 DEF IInv, TypeOK, RzpTypeOK
  <1>7. QED
    BY <1>1, <1>2, <1>6 DEF IInv

\* The instance dies in a handler of a user or admin.
LEMMA StepCrashRequest ==
    ASSUME IInv, NEW r \in Request, CrashRequest(r)
    PROVE  IInv'
  <1> USE DEF CrashRequest, rzpVars
  <1>1. SafetyInv' /\ OfferedInv' /\ IssuedInv' /\ HookInv'
    BY QuietStep
  <1>2. RequestInv' /\ RecordUnique' /\ (request \in [Request -> RequestRow])'
    BY FinishStep
  <1>3. TypeOK'
    BY <1>2 DEF IInv, TypeOK, RzpTypeOK
  <1>4. QED
    BY <1>1, <1>2, <1>3 DEF IInv

\* A billing period passes.
LEMMA StepTick ==
    ASSUME IInv, Tick
    PROVE  IInv'
  <1> USE DEF Tick, rzpVars
  <1>1. SafetyInv' /\ OfferedInv' /\ IssuedInv' /\ HookInv'
    BY QuietStep
  <1>2. RequestInv' /\ RecordUnique'
    BY DEF IInv, RequestInv, RecordUnique, At
  <1>3. TypeOK'
    BY DEF IInv, TypeOK, RzpTypeOK
  <1>4. QED
    BY <1>1, <1>2, <1>3 DEF IInv

(***************************************************************************)
(* Steps that write one subscription row.  What is asked of the row is the *)
(* safety property itself, for that user alone; the order it names must    *)
(* not be one that was given up before.                                    *)
(***************************************************************************)
\* A row that satisfies the safety properties for its own user may be written,
\* provided its order is not one whose payment was already ignored.
LEMMA WriteRow ==
    ASSUME IInv, NEW u \in users, NEW row \in SubRow,
           sub' = [sub EXCEPT ![u] = row],
           UNCHANGED <<issued, acked, users>>,
           granted \subseteq granted', applied \subseteq applied',
           \A o \in Order : /\ order'[o].user = order[o].user
                            /\ order'[o].tier = order[o].tier,
           row.order # NoOrder => order[row.order].user = u,
           row.status = "active" /\ row.plan # "free" =>
               \/ \E o \in Order : order[o].user = u /\ Captured(o)
               \/ <<u, row.plan>> \in granted',
           row.status = "past_due" =>
               \E o \in Order : order[o].user = u /\ FailedOnce(o),
           row.status = "trialing" => /\ row.order # NoOrder
                                      /\ order[row.order].tier = row.plan,
           \A e \in acked : e \notin applied /\ order[e.order].user = u
                            /\ sub[u].order # e.order => row.order # e.order
    PROVE  /\ (\A v \in User : HasSub(v) /\ sub[v].order # NoOrder
                               => order[sub[v].order].user = v)'
           /\ PaidPlanIsEarned' /\ PastDueHasFailure' /\ PendingMatchesOrder'
           /\ ErasedLeavesNothing' /\ AckedIsSettled'
           /\ (sub \in [User -> SubRow \cup {NoSub}])'
  <1> USE DEF IInv, SafetyInv
  <1>1. u \in User /\ sub \in [User -> SubRow \cup {NoSub}]
    BY DEF TypeOK
  <1>2. /\ sub' \in [User -> SubRow \cup {NoSub}]
        /\ sub'[u] = row /\ row # NoSub
        /\ \A v \in User : v # u => sub'[v] = sub[v]
    BY <1>1, NoSubAssumption
  <1>3. /\ row.order \in Order \cup {NoOrder}
        /\ \A v \in User : HasSub(v) => sub[v].order \in Order \cup {NoOrder}
    BY <1>1, SubIsRow DEF SubRow
  <1>4. \A o \in Order : (Captured(o) => Captured(o)') /\ (FailedOnce(o) => FailedOnce(o)')
    BY DEF Captured, FailedOnce
  <1>5. ASSUME NEW v \in User, HasSub(v)', sub'[v].order # NoOrder
        PROVE  order'[sub'[v].order].user = v
    BY <1>2, <1>3, <1>5 DEF OrderOwnership, HasSub
  <1>6. ASSUME NEW v \in User, HasSub(v)', sub'[v].status = "active",
               sub'[v].plan # "free"
        PROVE  \/ \E o \in Order : order'[o].user = v /\ Captured(o)'
               \/ <<v, sub'[v].plan>> \in granted'
    BY <1>2, <1>4, <1>6 DEF PaidPlanIsEarned, HasSub
  <1>7. ASSUME NEW v \in User, HasSub(v)', sub'[v].status = "past_due"
        PROVE  \E o \in Order : order'[o].user = v /\ FailedOnce(o)'
    BY <1>2, <1>4, <1>7 DEF PastDueHasFailure, HasSub
  <1>8. ASSUME NEW v \in User, HasSub(v)', sub'[v].status = "trialing"
        PROVE  sub'[v].order # NoOrder /\ order'[sub'[v].order].tier = sub'[v].plan
    BY <1>2, <1>3, <1>8 DEF PendingMatchesOrder, HasSub
  <1>9. ErasedLeavesNothing'
    BY <1>2 DEF ErasedLeavesNothing, HasSub
  <1>10. ASSUME NEW e \in acked', e \notin applied', order'[e.order].user \in users'
         PROVE  sub'[order'[e.order].user].order # e.order
    <2>1. e \in acked /\ e.order \in Order
      BY DEF TypeOK, RzpTypeOK, Event
    <2>2. order'[e.order].user = order[e.order].user
      BY <2>1
    <2>3. order[e.order].user \in User
      BY <1>10, <2>2 DEF TypeOK
    <2>4. sub[order[e.order].user].order # e.order
      BY <1>10, <2>1, <2>2 DEF AckedIsSettled
    <2>5. QED
      BY <1>2, <1>10, <2>1, <2>2, <2>3, <2>4
  <1>11. PaidPlanIsEarned' /\ PastDueHasFailure' /\ PendingMatchesOrder' /\ AckedIsSettled'
    BY <1>6, <1>7, <1>8, <1>10 DEF PaidPlanIsEarned, PastDueHasFailure,
       PendingMatchesOrder, AckedIsSettled
  <1>12. QED
    BY <1>2, <1>5, <1>9, <1>11

\* Around such a write by a request: orders keep owner, tier and offer, and the
\* webhook side stands still.
LEMMA AroundRow ==
    ASSUME IInv, UNCHANGED <<rzpVars, users, hook, audit, applied>>,
           \A v \in User : HasSub(v) => HasSub(v)'
    PROVE  /\ OfferedInv' /\ IssuedInv' /\ HookInv' /\ AuditedActivationWasPaid'
           /\ (\A e \in Event : hook[e].pc # "idle"
                                => order[e.order].user = hook[e].user)'
  <1> USE DEF IInv, SafetyInv, rzpVars
  <1>1. OfferedInv'
    BY DEF OfferedInv, Opened, TypeOK
  <1>2. IssuedInv' /\ HookInv' /\ AuditedActivationWasPaid'
    BY DEF IssuedInv, HookInv, AuditedActivationWasPaid, Captured
  <1>3. QED
    BY <1>1, <1>2 DEF OrderOwnership

\* The row of the immediate upsert, whoever asks for it.
LEMMA ActivateRowStep ==
    ASSUME IInv, NEW u \in users, NEW t \in Tier, ActivateRow(u, t), Grant(u, t),
           UNCHANGED <<rzpVars, users, hook, audit, applied>>
    PROVE  /\ SafetyInv' /\ OfferedInv' /\ IssuedInv' /\ HookInv'
           /\ (sub \in [User -> SubRow \cup {NoSub}])'
           /\ (granted \subseteq User \X Tier)'
  <1> DEFINE row == [plan |-> t, status |-> "active", periodEnd |-> now + Period,
                     order |-> IF HasSub(u) THEN sub[u].order ELSE NoOrder]
  <1>1. u \in User /\ now + Period \in Nat
    BY BillingAssumption DEF IInv, TypeOK
  <1>2. HasSub(u) => /\ sub[u].order \in Order \cup {NoOrder}
                     /\ sub[u].order # NoOrder => order[sub[u].order].user = u
    BY <1>1, SubIsRow DEF IInv, SafetyInv, OrderOwnership
  <1>3. /\ row.order # NoOrder => order[row.order].user = u
        /\ row.status = "active" /\ row.plan # "free" => <<u, row.plan>> \in granted'
        /\ row.status = "active" /\ row.order \in Order \cup {NoOrder}
    BY <1>2 DEF Grant
  <1>4. row \in SubRow
    BY <1>1, <1>2 DEF SubRow, Status
  <1>5. granted \subseteq granted' /\ granted' \subseteq User \X Tier
    BY <1>1 DEF Grant, IInv, TypeOK
  <1>6. \A e \in acked : e \notin applied /\ order[e.order].user = u
                         /\ sub[u].order # e.order => row.order # e.order
    <2> SUFFICES ASSUME NEW e \in acked, e \notin applied,
                        order[e.order].user = u, sub[u].order # e.order
                 PROVE  row.order # e.order
        OBVIOUS
    <2>1. e.order \in Order
      BY DEF IInv, TypeOK, RzpTypeOK, Event
    <2>2. QED
      BY <2>1, BillingAssumption
  <1> HIDE DEF row
  <1>7. sub' = [sub EXCEPT ![u] = row]
    BY DEF ActivateRow, row
  <1>8. \A v \in User : HasSub(v) => HasSub(v)'
    BY <1>1, <1>4, <1>7, NoSubAssumption DEF IInv, TypeOK, HasSub
  <1>9. row.status # "past_due" /\ row.status # "trialing"
    BY <1>3
  <1>10. /\ (\A v \in User : HasSub(v) /\ sub[v].order # NoOrder
                             => order[sub[v].order].user = v)'
         /\ PaidPlanIsEarned' /\ PastDueHasFailure' /\ PendingMatchesOrder'
         /\ ErasedLeavesNothing' /\ AckedIsSettled'
         /\ (sub \in [User -> SubRow \cup {NoSub}])'
    BY <1>3, <1>4, <1>5, <1>6, <1>7, <1>9, WriteRow, ZenonT(30) DEF rzpVars
  <1>11. QED
    BY <1>5, <1>8, <1>10, AroundRow DEF SafetyInv, OrderOwnership

\* The row of updateMany({ status: 'canceled' }), for any user.
LEMMA CancelRowStep ==
    ASSUME IInv, NEW u \in User, CancelRow(u),
           UNCHANGED <<rzpVars, users, hook, audit, applied, granted>>
    PROVE  /\ SafetyInv' /\ OfferedInv' /\ IssuedInv' /\ HookInv'
           /\ (sub \in [User -> SubRow \cup {NoSub}])'
  <1>1. CASE ~HasSub(u)
    <2>1. UNCHANGED sub
      BY <1>1 DEF CancelRow
    <2>2. QED
      BY <2>1, QuietStep DEF IInv, TypeOK
  <1>2. CASE HasSub(u)
    <2> DEFINE row == WithStatus(sub[u], "canceled", sub[u].periodEnd)
    <2>1. u \in users
      BY <1>2 DEF IInv, SafetyInv, ErasedLeavesNothing
    <2>2. /\ row \in SubRow
          /\ row.order = sub[u].order
          /\ row.status = "canceled"
      BY <1>2, SubIsRow DEF IInv, WithStatus, SubRow, Status
    <2>3. row.order # NoOrder => order[row.order].user = u
      BY <1>2, <2>2 DEF IInv, SafetyInv, OrderOwnership
    <2> HIDE DEF row
    <2>4. sub' = [sub EXCEPT ![u] = row]
      BY <1>2 DEF CancelRow, row
    <2>5. \A v \in User : HasSub(v) => HasSub(v)'
      BY <2>2, <2>4, NoSubAssumption DEF IInv, TypeOK, HasSub
    <2>6. /\ row.status # "past_due" /\ row.status # "trialing"
          /\ row.status # "active"
          /\ \A e \in acked : e \notin applied /\ order[e.order].user = u
                             /\ sub[u].order # e.order => row.order # e.order
          /\ UNCHANGED <<issued, acked, users>>
          /\ granted \subseteq granted' /\ applied \subseteq applied'
          /\ \A o \in Order : order'[o].user = order[o].user
                              /\ order'[o].tier = order[o].tier
      BY <2>2 DEF rzpVars
    <2>7. /\ (\A v \in User : HasSub(v) /\ sub[v].order # NoOrder
                              => order[sub[v].order].user = v)'
          /\ PaidPlanIsEarned' /\ PastDueHasFailure' /\ PendingMatchesOrder'
          /\ ErasedLeavesNothing' /\ AckedIsSettled'
          /\ (sub \in [User -> SubRow \cup {NoSub}])'
      BY <2>1, <2>2, <2>3, <2>4, <2>6, WriteRow
    <2>8. QED
      BY <2>5, <2>7, AroundRow DEF SafetyInv, OrderOwnership
  <1>3. QED
    BY <1>1, <1>2

\* subscribe without a payment: the free tier, or a plan that costs nothing.
LEMMA StepSubscribeActivate ==
    ASSUME IInv, NEW r \in Request, SubscribeActivate(r)
    PROVE  IInv'
  <1> USE DEF SubscribeActivate
  <1>1. request[r].user \in User /\ request[r].tier \in Tier
    BY DEF IInv, TypeOK, RequestRow, RequestInv, At
  <1>2. RequestInv' /\ RecordUnique' /\ (request \in [Request -> RequestRow])'
    BY FinishStep DEF rzpVars
  <1>3. /\ SafetyInv' /\ OfferedInv' /\ IssuedInv' /\ HookInv'
        /\ (sub \in [User -> SubRow \cup {NoSub}])'
        /\ (granted \subseteq User \X Tier)'
    <2>1. CASE request[r].user \in users
      BY <1>1, <2>1, ActivateRowStep
    <2>2. CASE request[r].user \notin users
      BY <2>2, QuietStep DEF IInv, TypeOK
    <2>3. QED
      BY <2>1, <2>2
  <1>4. TypeOK'
    BY <1>2, <1>3 DEF IInv, TypeOK, RzpTypeOK, rzpVars
  <1>5. QED
    BY <1>2, <1>3, <1>4 DEF IInv

\* cancel keeps plan and order of the row and ends its standing.
LEMMA StepCancel ==
    ASSUME IInv, NEW r \in Request, NEW u \in User, Cancel(r, u)
    PROVE  IInv'
  <1> USE DEF Cancel
  <1>1. RequestInv' /\ RecordUnique' /\ (request \in [Request -> RequestRow])'
    BY SuspendStep, RazorpayAssumption DEF PC, Action, rzpVars
  <1>2. /\ SafetyInv' /\ OfferedInv' /\ IssuedInv' /\ HookInv'
        /\ (sub \in [User -> SubRow \cup {NoSub}])'
    BY CancelRowStep
  <1>3. TypeOK'
    BY <1>1, <1>2 DEF IInv, TypeOK, RzpTypeOK, rzpVars
  <1>4. QED
    BY <1>1, <1>2, <1>3 DEF IInv

\* A comp or a downgrade is written.
LEMMA StepAdminSetWrite ==
    ASSUME IInv, NEW r \in Request, AdminSetWrite(r)
    PROVE  IInv'
  <1> DEFINE u == request[r].user
             t == request[r].tier
  <1> USE DEF AdminSetWrite
  <1>1. u \in User /\ t \in Tier
    BY DEF IInv, TypeOK, RequestRow, RequestInv, At
  <1>2. CASE t = "free" /\ CancelRow(u)
             /\ Suspend(r, "audit", u, t, NoOrder, "user.subscription_set")
             /\ UNCHANGED granted
    <2>1. RequestInv' /\ RecordUnique' /\ (request \in [Request -> RequestRow])'
      BY <1>1, <1>2, SuspendStep DEF PC, Action, rzpVars
    <2>2. /\ SafetyInv' /\ OfferedInv' /\ IssuedInv' /\ HookInv'
          /\ (sub \in [User -> SubRow \cup {NoSub}])'
      BY <1>1, <1>2, CancelRowStep
    <2>3. QED
      BY <1>2, <2>1, <2>2 DEF IInv, TypeOK, RzpTypeOK, rzpVars
  <1>3. CASE u \in users /\ ActivateRow(u, t) /\ Grant(u, t)
             /\ Suspend(r, "audit", u, t, NoOrder, "user.subscription_set")
    <2>1. RequestInv' /\ RecordUnique' /\ (request \in [Request -> RequestRow])'
      BY <1>1, <1>3, SuspendStep DEF PC, Action, rzpVars
    <2>2. /\ SafetyInv' /\ OfferedInv' /\ IssuedInv' /\ HookInv'
          /\ (sub \in [User -> SubRow \cup {NoSub}])'
          /\ (granted \subseteq User \X Tier)'
      BY <1>1, <1>3, ActivateRowStep
    <2>3. QED
      BY <2>1, <2>2 DEF IInv, TypeOK, RzpTypeOK, rzpVars
  <1>4. CASE Finish(r) /\ UNCHANGED <<sub, granted>>
    <2>1. RequestInv' /\ RecordUnique' /\ (request \in [Request -> RequestRow])'
      BY <1>4, FinishStep DEF rzpVars
    <2>2. SafetyInv' /\ OfferedInv' /\ IssuedInv' /\ HookInv'
      BY <1>4, QuietStep
    <2>3. QED
      BY <1>4, <2>1, <2>2 DEF IInv, TypeOK, RzpTypeOK, rzpVars
  <1>5. QED
    BY <1>2, <1>3, <1>4

\* subscribe records its order, unless the user was erased in the meantime.
LEMMA StepSubscribeRecord ==
    ASSUME IInv, NEW r \in Request, SubscribeRecord(r)
    PROVE  IInv'
  <1>0. /\ request[r].user \in User /\ request[r].tier \in Tier
        /\ request[r].order \in Order
    BY DEF SubscribeRecord, IInv, TypeOK, RequestRow, RequestInv, At
  <1> PICK u \in User, t \in Tier, o \in Order :
         u = request[r].user /\ t = request[r].tier /\ o = request[r].order
    BY <1>0
  <1>1. /\ order[o].user = u /\ order[o].tier = t /\ ~order[o].offered
    BY DEF SubscribeRecord, IInv, TypeOK, RequestRow, RequestInv, At
  <1>2. CASE u \notin users
    <2>1. /\ UNCHANGED <<sub, order>> /\ Finish(r)
          /\ UNCHANGED <<issued, acked, users, priceMinor, hook, audit, now,
                         crashes, granted, applied>>
      BY <1>2 DEF SubscribeRecord
    <2>2. RequestInv' /\ RecordUnique' /\ (request \in [Request -> RequestRow])'
      BY <2>1, FinishStep
    <2>3. SafetyInv' /\ OfferedInv' /\ IssuedInv' /\ HookInv'
      BY <2>1, QuietStep DEF rzpVars
    <2>4. QED
      BY <2>1, <2>2, <2>3 DEF IInv, TypeOK, RzpTypeOK
  <1>3. CASE u \in users
    <2> DEFINE row == [plan |-> t, status |-> "trialing", order |-> o,
                       periodEnd |-> IF HasSub(u) THEN sub[u].periodEnd ELSE NoTime]
    <2>0. /\ PendingRow(u, t, o) /\ Offer(o) /\ Finish(r)
          /\ UNCHANGED <<issued, acked, users, priceMinor, hook, audit, now,
                         crashes, granted, applied>>
      BY <1>3 DEF SubscribeRecord
    <2>1. row \in SubRow
      BY <1>1, SubIsRow DEF IInv, SubRow, Status, NoTime
    <2>2. row.status = "trialing" /\ row.order = o /\ row.plan = t /\ o # NoOrder
      BY <1>1, BillingAssumption
    <2> HIDE DEF row
    <2>3. sub' = [sub EXCEPT ![u] = row]
      BY <2>0 DEF PendingRow, row
    <2>4. /\ order' \in [Order -> OrderRow]
          /\ \A p \in Order : /\ order'[p].user = order[p].user
                              /\ order'[p].tier = order[p].tier
                              /\ p # o => order'[p].offered = order[p].offered
          /\ order'[o].offered
      <3> DEFINE x == [user |-> order[o].user, tier |-> order[o].tier, offered |-> TRUE]
      <3>1. order \in [Order -> OrderRow]
        BY DEF IInv, TypeOK, RzpTypeOK
      <3>2. x \in OrderRow /\ x.user = order[o].user /\ x.tier = order[o].tier /\ x.offered
        BY <1>1, <3>1 DEF OrderRow
      <3> HIDE DEF x
      <3>3. order' = [order EXCEPT ![o] = x]
        BY <2>0 DEF Offer, x
      <3>4. QED
        BY <1>1, <3>1, <3>2, <3>3
    <2>5. /\ row.order # NoOrder => order[row.order].user = u
          /\ row.status # "active" /\ row.status # "past_due"
          /\ row.order # NoOrder /\ order[row.order].tier = row.plan
      BY <1>1, <2>2
    <2>6. /\ \A e \in acked : e \notin applied /\ order[e.order].user = u
                             /\ sub[u].order # e.order => row.order # e.order
          /\ granted \subseteq granted' /\ applied \subseteq applied'
          /\ UNCHANGED <<issued, acked, users>>
          /\ \A p \in Order : order'[p].user = order[p].user
                              /\ order'[p].tier = order[p].tier
      BY <1>1, <2>0, <2>2, <2>4 DEF IInv, IssuedInv, TypeOK, RzpTypeOK
    <2>7. /\ (\A v \in User : HasSub(v) /\ sub[v].order # NoOrder
                              => order[sub[v].order].user = v)'
          /\ PaidPlanIsEarned' /\ PastDueHasFailure' /\ PendingMatchesOrder'
          /\ ErasedLeavesNothing' /\ AckedIsSettled'
          /\ (sub \in [User -> SubRow \cup {NoSub}])'
      BY <1>3, <2>1, <2>3, <2>5, <2>6, WriteRow
    <2>8. /\ \A v \in User : HasSub(v) => HasSub(v)'
          /\ HasSub(u)'
      BY <1>1, <2>1, <2>3, NoSubAssumption DEF IInv, TypeOK, HasSub
    <2>9. OfferedInv'
      <3> SUFFICES ASSUME NEW p \in Order, order'[p].offered
                   PROVE  /\ order'[p].user # Nobody
                          /\ order'[p].user \in users => HasSub(order[p].user)'
          BY <2>0 DEF OfferedInv, Opened, HasSub
      <3>1. CASE p = o
        BY <1>1, <2>4, <2>8, <3>1, RazorpayAssumption DEF HasSub
      <3>2. CASE p # o
        BY <2>4, <2>8, <3>2 DEF IInv, OfferedInv, Opened, TypeOK, HasSub
      <3>3. QED
        BY <3>1, <3>2
    <2>10. IssuedInv'
      <3> SUFFICES ASSUME NEW e \in issued PROVE order'[e.order].offered
          BY <2>0 DEF IssuedInv
      <3>1. e.order \in Order /\ order[e.order].offered
        BY DEF IInv, TypeOK, RzpTypeOK, Event, IssuedInv
      <3>2. QED
        BY <1>1, <2>4, <3>1
    <2>11. HookInv' /\ AuditedActivationWasPaid'
      BY <2>0, <2>4 DEF IInv, SafetyInv, HookInv, AuditedActivationWasPaid, Captured
    <2>12. (\A e \in Event : hook[e].pc # "idle" => order[e.order].user = hook[e].user)'
      BY <2>0, <2>4 DEF IInv, SafetyInv, OrderOwnership, Event
    <2>13. (request \in [Request -> RequestRow])'
      BY <2>0, IdleRequestType DEF IInv, TypeOK, Finish
    <2>14. RequestInv'
      <3> SUFFICES ASSUME NEW q \in Request
                   PROVE  /\ request'[q].pc \notin {"idle", "audit"} => request'[q].user \in User
                          /\ request'[q].pc = "audit" =>
                                request'[q].user \in User \/ request'[q].action = "plan.update"
                          /\ request'[q].pc = "record" =>
                                /\ request'[q].order \in Order
                                /\ order'[request'[q].order].user = request'[q].user
                                /\ order'[request'[q].order].tier = request'[q].tier
                                /\ ~order'[request'[q].order].offered
          BY DEF RequestInv, At
      <3>1. CASE q = r
        BY <2>0, <3>1 DEF IInv, TypeOK, Finish, IdleRequest
      <3>2. CASE q # r
        <4>1. request'[q] = request[q]
          BY <2>0, <3>2 DEF IInv, TypeOK, Finish
        <4>2. request[q].pc = "record" => request[q].order # o
          BY <3>2 DEF SubscribeRecord, IInv, RecordUnique, At
        <4>3. QED
          BY <2>4, <4>1, <4>2 DEF IInv, RequestInv, At
      <3>3. QED
        BY <3>1, <3>2
    <2>15. RecordUnique'
      BY <2>0 DEF IInv, TypeOK, RecordUnique, At, Finish, IdleRequest
    <2>16. TypeOK'
      BY <2>0, <2>4, <2>7, <2>13 DEF IInv, TypeOK, RzpTypeOK
    <2>17. QED
      BY <2>7, <2>9, <2>10, <2>11, <2>12, <2>14, <2>15, <2>16
         DEF IInv, SafetyInv, OrderOwnership
  <1>4. QED
    BY <1>2, <1>3

\* A deleted user takes the subscription along; everybody else's stays.
LEMMA StepAdminEraseDelete ==
    ASSUME IInv, NEW r \in Request, AdminEraseDelete(r)
    PROVE  IInv'
  <1> DEFINE u == request[r].user
  <1> USE DEF AdminEraseDelete, rzpVars
  <1>1. u \in User
    BY DEF IInv, RequestInv, At
  <1>2. /\ users' = users \ {u}
        /\ sub' \in [User -> SubRow \cup {NoSub}]
        /\ sub'[u] = NoSub
        /\ \A v \in User : v # u => sub'[v] = sub[v]
    BY <1>1 DEF IInv, TypeOK
  <1>3. OrderOwnership'
    BY <1>2 DEF IInv, SafetyInv, OrderOwnership, HasSub
  <1>4. PaidPlanIsEarned'
    BY <1>2 DEF IInv, SafetyInv, PaidPlanIsEarned, HasSub, Captured
  <1>5. PastDueHasFailure'
    BY <1>2 DEF IInv, SafetyInv, PastDueHasFailure, HasSub, FailedOnce
  <1>6. PendingMatchesOrder' /\ ErasedLeavesNothing'
    BY <1>2 DEF IInv, SafetyInv, PendingMatchesOrder, ErasedLeavesNothing, HasSub
  <1>7. AckedIsSettled'
    <2> SUFFICES ASSUME NEW e \in acked, e \notin applied,
                        order[e.order].user \in users'
                 PROVE  sub'[order[e.order].user].order # e.order
        BY DEF AckedIsSettled
    <2>1. order[e.order].user \in users /\ order[e.order].user # u
      BY <1>2
    <2>2. order[e.order].user \in User
      BY <2>1 DEF IInv, TypeOK
    <2>3. QED
      BY <1>2, <2>1, <2>2 DEF IInv, SafetyInv, AckedIsSettled
  <1>8. AuditedActivationWasPaid' /\ IssuedInv' /\ HookInv'
    BY DEF IInv, SafetyInv, AuditedActivationWasPaid, Captured, IssuedInv, HookInv
  <1>9. OfferedInv'
    <2> SUFFICES ASSUME NEW p \in Order, order[p].offered
                 PROVE  /\ Opened(p)
                        /\ order[p].user \in users' => HasSub(order[p].user)'
        BY DEF OfferedInv, Opened
    <2>1. Opened(p) /\ (order[p].user \in users => HasSub(order[p].user))
      BY DEF IInv, OfferedInv
    <2>2. users \subseteq User
      BY DEF IInv, TypeOK
    <2>3. QED
      BY <1>2, <2>1, <2>2 DEF HasSub
  <1>10. RequestInv' /\ RecordUnique' /\ (request \in [Request -> RequestRow])'
    BY FinishStep
  <1>11. TypeOK'
    BY <1>2, <1>10 DEF IInv, TypeOK, RzpTypeOK
  <1>12. QED
    BY <1>3, <1>4, <1>5, <1>6, <1>7, <1>8, <1>9, <1>10, <1>11 DEF IInv, SafetyInv

(***************************************************************************)
(* Steps of the provider: orders are opened, events are announced.         *)
(***************************************************************************)
\* createOrder: the provider opens an order nobody had before.
LEMMA StepSubscribeCharge ==
    ASSUME IInv, NEW r \in Request, SubscribeCharge(r)
    PROVE  IInv'
  <1>0. request[r].user \in User /\ request[r].tier \in Tier
    BY DEF SubscribeCharge, IInv, TypeOK, RequestRow, RequestInv, At
  <1> PICK u \in User, t \in Tier : u = request[r].user /\ t = request[r].tier
    BY <1>0
  <1>1. CASE Finish(r) /\ UNCHANGED rzpVars
    <2>1. RequestInv' /\ RecordUnique' /\ (request \in [Request -> RequestRow])'
      BY <1>1, FinishStep DEF rzpVars
    <2>2. SafetyInv' /\ OfferedInv' /\ IssuedInv' /\ HookInv'
      BY <1>1, QuietStep DEF SubscribeCharge
    <2>3. QED
      BY <1>1, <2>1, <2>2 DEF SubscribeCharge, IInv, TypeOK, RzpTypeOK, rzpVars
  <1>2. ASSUME NEW o \in Order, CreateOrder(o, u, t), Suspend(r, "record", u, t, o, "")
        PROVE  IInv'
    <2>0. UNCHANGED <<issued, acked, users, sub, priceMinor, hook, audit, now,
                      crashes, granted, applied>>
      BY <1>2 DEF SubscribeCharge, CreateOrder
    <2>1. /\ order' \in [Order -> OrderRow]
          /\ order'[o].user = u /\ order'[o].tier = t /\ ~order'[o].offered
          /\ \A p \in Order : p # o => order'[p] = order[p]
      BY <1>2 DEF CreateOrder, IInv, TypeOK, RzpTypeOK, OrderRow
    <2>2. order[o].user = Nobody /\ ~order[o].offered
      BY <1>2 DEF CreateOrder, Opened, IInv, OfferedInv, TypeOK, RzpTypeOK, OrderRow
    <2>3. \A p \in Order : order[p].user \in User => order'[p] = order[p]
      BY <2>1, <2>2, RazorpayAssumption
    <2>4. OrderOwnership'
      <3>1. \A v \in User : HasSub(v) /\ sub[v].order # NoOrder =>
                              order'[sub[v].order].user = v
        BY <2>3, SubIsRow DEF IInv, SafetyInv, OrderOwnership
      <3>2. \A e \in Event : hook[e].pc # "idle" => order'[e.order].user = hook[e].user
        <4> SUFFICES ASSUME NEW e \in Event, hook[e].pc # "idle"
                     PROVE  order'[e.order].user = hook[e].user
            OBVIOUS
        <4>1. e \in issued /\ order[e.order].user = hook[e].user /\ e.order \in Order
          BY DEF IInv, HookInv, SafetyInv, OrderOwnership, Event
        <4>2. order[e.order].offered
          BY <4>1 DEF IInv, IssuedInv
        <4>3. QED
          BY <2>1, <2>2, <4>1, <4>2
      <3>3. QED
        BY <2>0, <3>1, <3>2 DEF OrderOwnership, HasSub
    <2>5. \A p \in Order : /\ Captured(p)' = Captured(p)
                           /\ FailedOnce(p)' = FailedOnce(p)
      BY <2>0 DEF Captured, FailedOnce
    <2>6. PaidPlanIsEarned' /\ PastDueHasFailure' /\ AuditedActivationWasPaid'
      BY <2>0, <2>3, <2>5 DEF IInv, SafetyInv, PaidPlanIsEarned,
         PastDueHasFailure, AuditedActivationWasPaid, HasSub
    <2>7. PendingMatchesOrder'
      <3> SUFFICES ASSUME NEW v \in User, HasSub(v), sub[v].status = "trialing"
                   PROVE  /\ sub[v].order # NoOrder
                          /\ order'[sub[v].order].tier = sub[v].plan
          BY <2>0 DEF PendingMatchesOrder, HasSub
      <3>1. /\ sub[v].order # NoOrder /\ sub[v].order \in Order
            /\ order[sub[v].order].user = v
            /\ order[sub[v].order].tier = sub[v].plan
        BY SubIsRow DEF IInv, SafetyInv, PendingMatchesOrder, OrderOwnership
      <3>2. QED
        BY <2>3, <3>1
    <2>8. ErasedLeavesNothing'
      BY <2>0 DEF IInv, SafetyInv, ErasedLeavesNothing, HasSub
    <2>9. \A e \in issued : order'[e.order] = order[e.order]
      BY <2>1, <2>2 DEF IInv, IssuedInv, TypeOK, RzpTypeOK, Event
    <2>10. AckedIsSettled' /\ IssuedInv'
      BY <2>0, <2>9 DEF IInv, SafetyInv, AckedIsSettled, IssuedInv, TypeOK, RzpTypeOK
    <2>11. HookInv'
      BY <2>0 DEF IInv, HookInv
    <2>12. OfferedInv'
      BY <2>0, <2>1 DEF IInv, OfferedInv, Opened, HasSub
    <2> DEFINE q == [pc |-> "record", user |-> u, tier |-> t, order |-> o, action |-> ""]
    <2>13. /\ q \in RequestRow /\ q.pc = "record" /\ q.order = o /\ q.user = u
           /\ q.tier = t
      BY DEF RequestRow, PC, Action
    <2> HIDE DEF q
    <2>14. /\ request' \in [Request -> RequestRow]
           /\ request'[r] = q
           /\ \A s \in Request : s # r => request'[s] = request[s]
      BY <1>2, <2>13 DEF IInv, TypeOK, Suspend, q
    <2>15. \A s \in Request : request[s].pc = "record" => request[s].order # o
                                   /\ order'[request[s].order] = order[request[s].order]
      BY <2>2, <2>3, RazorpayAssumption DEF IInv, RequestInv, At
    <2>16. RecordUnique'
      BY <2>13, <2>14, <2>15 DEF IInv, RecordUnique, At
    <2>17. RequestInv'
      <3> SUFFICES ASSUME NEW s \in Request
                   PROVE  /\ request'[s].pc \notin {"idle", "audit"} => request'[s].user \in User
                          /\ request'[s].pc = "audit" =>
                                request'[s].user \in User \/ request'[s].action = "plan.update"
                          /\ request'[s].pc = "record" =>
                                /\ request'[s].order \in Order
                                /\ order'[request'[s].order].user = request'[s].user
                                /\ order'[request'[s].order].tier = request'[s].tier
                                /\ ~order'[request'[s].order].offered
          BY DEF RequestInv, At
      <3>1. CASE s = r
        BY <2>1, <2>13, <2>14, <3>1
      <3>2. CASE s # r
        BY <2>14, <2>15, <3>2 DEF IInv, RequestInv, At
      <3>3. QED
        BY <3>1, <3>2
    <2>18. TypeOK'
      BY <2>0, <2>1, <2>14 DEF IInv, TypeOK, RzpTypeOK
    <2>19. QED
      BY <2>4, <2>6, <2>7, <2>8, <2>10, <2>11, <2>12, <2>16, <2>17, <2>18
         DEF IInv, SafetyInv
  <1>3. QED
    BY <1>1, <1>2 DEF SubscribeCharge

\* A payment settles or is declined at the provider.
LEMMA StepCheckout ==
    ASSUME IInv, NEW o \in Order, Checkout(o)
    PROVE  IInv'
  <1>1. /\ order[o].offered
        /\ \E K \in SUBSET EventKind : issued' = issued \cup [order : {o}, kind : K]
        /\ UNCHANGED <<order, acked, users, sub, priceMinor, request, hook, audit,
                       now, crashes, granted, applied>>
    BY DEF Checkout, Capture, FailAttempt, PaidKind
  <1>2. /\ issued \subseteq issued' /\ issued' \subseteq Event
        /\ \A e \in issued' : e \in issued \/ e.order = o
    BY <1>1 DEF IInv, TypeOK, RzpTypeOK, Event
  <1>3. TypeOK'
    BY <1>1, <1>2 DEF IInv, TypeOK, RzpTypeOK
  <1>4. \A p \in Order : (Captured(p) => Captured(p)') /\ (FailedOnce(p) => FailedOnce(p)')
    BY <1>2 DEF Captured, FailedOnce
  <1>5. OrderOwnership' /\ PendingMatchesOrder' /\ ErasedLeavesNothing' /\ AckedIsSettled'
    BY <1>1 DEF IInv, SafetyInv, OrderOwnership, PendingMatchesOrder,
       ErasedLeavesNothing, AckedIsSettled, HasSub
  <1>6. PaidPlanIsEarned' /\ PastDueHasFailure' /\ AuditedActivationWasPaid'
    BY <1>1, <1>4 DEF IInv, SafetyInv, PaidPlanIsEarned, PastDueHasFailure,
       AuditedActivationWasPaid, HasSub
  <1>7. RequestInv' /\ RecordUnique' /\ OfferedInv'
    BY <1>1 DEF IInv, RequestInv, RecordUnique, OfferedInv, At, Opened, HasSub
  <1>8. IssuedInv' /\ HookInv'
    BY <1>1, <1>2 DEF IInv, IssuedInv, HookInv
  <1>9. QED
    BY <1>3, <1>5, <1>6, <1>7, <1>8 DEF IInv, SafetyInv

(***************************************************************************)
(* Webhook deliveries.                                                     *)
(***************************************************************************)
\* Steps of a delivery that leave the tables alone and at most acknowledge it:
\* what remains to be shown is about that delivery and about acked.
LEMMA DeliveryStep ==
    ASSUME IInv, NEW e \in Event, NEW h \in HookRow,
           hook' = [hook EXCEPT ![e] = h],
           h.pc # "idle" => e \in issued /\ order[e.order].user = h.user,
           h.pc = "written" => e \in applied,
           UNCHANGED <<order, issued, users, sub, priceMinor, request, now,
                       granted, applied>>,
           crashes' \in Nat,
           audit' \subseteq AuditEntry, AuditedActivationWasPaid',
           acked' = acked \/ (acked' = acked \cup {e} /\ e \in issued),
           e \in acked' => \/ e \in acked
                          \/ e \in applied
                          \/ order[e.order].user \notin users
                          \/ sub[order[e.order].user].order # e.order
    PROVE  IInv'
  <1> USE DEF IInv, SafetyInv
  <1>1. /\ hook' \in [Event -> HookRow]
        /\ hook'[e] = h
        /\ \A f \in Event : f # e => hook'[f] = hook[f]
    BY DEF TypeOK
  <1>2. TypeOK'
    BY <1>1 DEF TypeOK, RzpTypeOK
  <1>3. OrderOwnership'
    BY <1>1 DEF OrderOwnership, HasSub
  <1>4. PaidPlanIsEarned' /\ PastDueHasFailure'
    BY DEF PaidPlanIsEarned, PastDueHasFailure, HasSub, Captured, FailedOnce
  <1>5. PendingMatchesOrder' /\ ErasedLeavesNothing'
    BY DEF PendingMatchesOrder, ErasedLeavesNothing, HasSub
  <1>6. AckedIsSettled'
    BY DEF AckedIsSettled
  <1>7. RequestInv' /\ RecordUnique' /\ OfferedInv' /\ IssuedInv'
    BY DEF RequestInv, RecordUnique, OfferedInv, IssuedInv, At, Opened, HasSub
  <1>8. HookInv'
    BY <1>1 DEF HookInv
  <1>9. QED
    BY <1>2, <1>3, <1>4, <1>5, <1>6, <1>7, <1>8

\* An audit log that did not change keeps its truth, since events are not undone.
LEMMA QuietAudit ==
    ASSUME IInv, UNCHANGED <<order, issued, audit>>
    PROVE  AuditedActivationWasPaid' /\ audit' \subseteq AuditEntry
  BY DEF IInv, SafetyInv, TypeOK, AuditedActivationWasPaid, Captured

\* A delivery without memory is typed.
LEMMA IdleHookType == IdleHook \in HookRow /\ IdleHook.pc = "idle"
  BY DEF IdleHook, HookRow

\* Looking the order up: the row found belongs to the order's user; an order that
\* no row carries is one that was replaced or whose user is gone.
LEMMA StepWebhookFind ==
    ASSUME IInv, NEW e \in Event, WebhookFind(e)
    PROVE  IInv'
  <1>0. /\ e \in issued /\ crashes' \in Nat
        /\ UNCHANGED <<order, issued, users, sub, priceMinor, request, audit, now,
                       crashes, granted, applied>>
    BY DEF WebhookFind, IInv, TypeOK
  <1>1. e.order \in Order /\ e.order # NoOrder
    BY BillingAssumption DEF Event
  <1>2. ASSUME NEW u \in User, HasSub(u), sub[u].order = e.order,
               hook' = [hook EXCEPT ![e] = [pc |-> "found", user |-> u]],
               UNCHANGED acked
        PROVE  IInv'
    <2> DEFINE h == [pc |-> "found", user |-> u]
    <2>1. h \in HookRow /\ h.pc = "found" /\ h.user = u
      BY DEF HookRow
    <2>2. order[e.order].user = u
      BY <1>1, <1>2 DEF IInv, SafetyInv, OrderOwnership
    <2> HIDE DEF h
    <2>3. hook' = [hook EXCEPT ![e] = h]
      BY <1>2 DEF h
    <2>4. QED
      BY <1>0, <1>2, <2>1, <2>2, <2>3, QuietAudit, DeliveryStep
  <1>3. CASE /\ \A u \in User : HasSub(u) => sub[u].order # e.order
             /\ Acknowledge(e)
             /\ UNCHANGED hook
    <2>1. order[e.order].user \in users => sub[order[e.order].user].order # e.order
      BY <1>0, <1>1, <1>3 DEF IInv, TypeOK, IssuedInv, OfferedInv
    <2>2. hook[e] \in HookRow /\ hook' = [hook EXCEPT ![e] = hook[e]]
      BY <1>3 DEF IInv, TypeOK
    <2>3. /\ hook[e].pc # "idle" => e \in issued /\ order[e.order].user = hook[e].user
          /\ hook[e].pc = "written" => e \in applied
      BY DEF IInv, SafetyInv, OrderOwnership, HookInv
    <2>4. acked' = acked \cup {e}
      BY <1>3 DEF Acknowledge
    <2>5. QED
      BY <1>0, <2>1, <2>2, <2>3, <2>4, QuietAudit, DeliveryStep
  <1>4. QED
    BY <1>2, <1>3 DEF WebhookFind

\* The trailing audit entry and the 2xx answer: both only once the UPDATE is done.
LEMMA StepWebhookAudit ==
    ASSUME IInv, NEW e \in Event, WebhookAudit(e)
    PROVE  IInv'
  <1> PICK u \in User \cup {Nobody} : u = hook[e].user
    BY DEF IInv, TypeOK, HookRow
  <1>1. /\ hook[e].pc = "written" /\ crashes' \in Nat
        /\ hook' = [hook EXCEPT ![e] = IdleHook]
        /\ UNCHANGED <<order, issued, users, sub, priceMinor, request, now,
                       crashes, granted, applied>>
    BY DEF WebhookAudit, IInv, TypeOK
  <1>2. e \in applied /\ e \in issued /\ order[e.order].user = u
    BY <1>1 DEF IInv, HookInv, SafetyInv, OrderOwnership
  <1>3. CASE u \in users /\ Log(WebhookAction(e.kind), u) /\ Acknowledge(e)
    <2>1. u \in User
      BY <1>3 DEF IInv, TypeOK
    <2>2. WebhookAction(e.kind) \in LoggedAction
      BY DEF WebhookAction, LoggedAction
    <2>3. audit' \subseteq AuditEntry
      BY <1>3, <2>1, <2>2, LogType DEF IInv
    <2>4. WebhookAction(e.kind) = "subscription.activated" => Captured(e.order)
      BY <1>2 DEF WebhookAction, Captured
    <2>5. e.order \in Order
      BY DEF Event
    <2>6. AuditedActivationWasPaid'
      <3> SUFFICES ASSUME NEW v \in User,
                          [action |-> "subscription.activated", entity |-> v] \in audit'
                   PROVE  \E o \in Order : order[o].user = v /\ Captured(o)
          BY <1>1 DEF AuditedActivationWasPaid, Captured
      <3>1. CASE [action |-> "subscription.activated", entity |-> v] \in audit
        BY <3>1 DEF IInv, SafetyInv, AuditedActivationWasPaid
      <3>2. CASE [action |-> "subscription.activated", entity |-> v] \notin audit
        <4>1. [action |-> "subscription.activated", entity |-> v]
              = [action |-> WebhookAction(e.kind), entity |-> u]
          BY <1>3, <3>2 DEF Log
        <4>2. v = u /\ WebhookAction(e.kind) = "subscription.activated"
          BY <4>1
        <4>3. QED
          BY <1>2, <2>4, <2>5, <4>2
      <3>3. QED
        BY <3>1, <3>2
    <2>7. acked' = acked \cup {e}
      BY <1>3 DEF Acknowledge
    <2>8. QED
      BY <1>1, <1>2, <2>3, <2>6, <2>7, IdleHookType, DeliveryStep
  <1>4. CASE UNCHANGED <<audit, acked>>
    BY <1>1, <1>2, <1>4, IdleHookType, QuietAudit, DeliveryStep
  <1>5. QED
    BY <1>3, <1>4 DEF WebhookAudit

\* A delivery that dies half way is forgotten; the provider will come back.
LEMMA StepCrashHook ==
    ASSUME IInv, NEW e \in Event, CrashHook(e)
    PROVE  IInv'
  <1>1. /\ hook' = [hook EXCEPT ![e] = IdleHook]
        /\ crashes' \in Nat
        /\ UNCHANGED <<order, issued, acked, users, sub, priceMinor, request,
                       audit, now, granted, applied>>
    BY DEF CrashHook, rzpVars, IInv, TypeOK
  <1>2. QED
    BY <1>1, IdleHookType, QuietAudit, DeliveryStep

\* The UPDATE of a delivery: only the status and the period of the row of the
\* order's user change, and they change as the announced event demands.
LEMMA StepWebhookApply ==
    ASSUME IInv, NEW e \in Event, WebhookApply(e)
    PROVE  IInv'
  <1>0. hook[e].pc = "found" /\ UNCHANGED <<rzpVars, users, priceMinor, request,
                                            audit, now, crashes, granted>>
    BY DEF WebhookApply
  <1>1. /\ e \in issued /\ e.order \in Order /\ e.kind \in EventKind
        /\ order[e.order].user = hook[e].user /\ order[e.order].offered
    BY <1>0 DEF IInv, HookInv, SafetyInv, OrderOwnership, IssuedInv, Event
  <1>2. order[e.order].user \in User
    BY <1>1, RazorpayAssumption
       DEF IInv, TypeOK, RzpTypeOK, OrderRow, OfferedInv, Opened
  <1> PICK u \in User : u = hook[e].user
    BY <1>1, <1>2
  <1>3. CASE hook' = [hook EXCEPT ![e] = IdleHook] /\ UNCHANGED <<sub, applied>>
    <2>1. crashes' \in Nat
      BY <1>0 DEF IInv, TypeOK
    <2>2. QED
      BY <1>0, <1>3, <2>1, IdleHookType, QuietAudit, DeliveryStep DEF rzpVars
  <1>4. CASE /\ HasSub(u)
             /\ sub' = [sub EXCEPT ![u] = Applied(@, e.kind)]
             /\ applied' = applied \cup {e}
             /\ hook' = [hook EXCEPT ![e] = [pc |-> "written", user |-> u]]
    <2>0. u \in users
      BY <1>4 DEF IInv, SafetyInv, ErasedLeavesNothing
    <2>1. /\ sub[u].plan \in Tier /\ sub[u].order \in Order \cup {NoOrder}
          /\ sub[u].periodEnd \in Nat /\ now + Period \in Nat
      BY <1>4, SubIsRow, BillingAssumption DEF IInv, TypeOK
    <2> DEFINE written == Applied(sub[u], e.kind)
    <2>1a. /\ written \in SubRow /\ written.order = sub[u].order
          /\ \/ written.status = "active" /\ Captured(e.order)
             \/ written.status = "past_due" /\ FailedOnce(e.order)
      <3>1. CASE e.kind \in PaidKind
        BY <1>1, <2>1, <3>1 DEF Applied, WithStatus, SubRow, Status, Captured
      <3>2. CASE e.kind \notin PaidKind
        <4>1. e.kind = "payment.failed"
          BY <1>1, <3>2, RazorpayAssumption DEF PaidKind
        <4>2. QED
          BY <1>1, <2>1, <3>2, <4>1 DEF Applied, WithStatus, SubRow, Status, FailedOnce
      <3>3. QED
        BY <3>1, <3>2
    <2> HIDE DEF written
    <2> PICK row \in SubRow : row = written
      BY <2>1a
    <2>2. /\ row.order = sub[u].order
          /\ \/ row.status = "active" /\ Captured(e.order)
             \/ row.status = "past_due" /\ FailedOnce(e.order)
      BY <2>1a
    <2>3. sub' = [sub EXCEPT ![u] = row]
      BY <1>4 DEF written
    <2>4. row.order # NoOrder => order[row.order].user = u
      BY <1>4, <2>2 DEF IInv, SafetyInv, OrderOwnership
    <2>5. /\ row.status = "active" /\ row.plan # "free" =>
                \/ \E o \in Order : order[o].user = u /\ Captured(o)
                \/ <<u, row.plan>> \in granted'
          /\ row.status = "past_due" => \E o \in Order : order[o].user = u /\ FailedOnce(o)
          /\ row.status = "trialing" => /\ row.order # NoOrder
                                        /\ order[row.order].tier = row.plan
      BY <1>1, <2>2
    <2>6. \A f \in acked : f \notin applied /\ order[f.order].user = u
                            /\ sub[u].order # f.order => row.order # f.order
      BY <2>2
    <2>7. /\ UNCHANGED <<issued, acked, users>>
          /\ granted \subseteq granted' /\ applied \subseteq applied'
          /\ \A o \in Order : order'[o].user = order[o].user
                              /\ order'[o].tier = order[o].tier
      BY <1>0, <1>4 DEF rzpVars
    <2>8. /\ (\A v \in User : HasSub(v) /\ sub[v].order # NoOrder
                              => order[sub[v].order].user = v)'
          /\ PaidPlanIsEarned' /\ PastDueHasFailure' /\ PendingMatchesOrder'
          /\ ErasedLeavesNothing' /\ AckedIsSettled'
          /\ (sub \in [User -> SubRow \cup {NoSub}])'
      BY <2>0, <2>3, <2>4, <2>5, <2>6, <2>7, WriteRow
    <2> DEFINE h == [pc |-> "written", user |-> u]
    <2>9. h \in HookRow /\ h.user = u
      BY DEF HookRow
    <2> HIDE DEF h
    <2>10. /\ hook' \in [Event -> HookRow] /\ hook'[e] = h
           /\ \A f \in Event : f # e => hook'[f] = hook[f]
      BY <1>4, <2>9 DEF IInv, TypeOK, h
    <2>11. (\A f \in Event : hook[f].pc # "idle" => order[f.order].user = hook[f].user)'
      BY <1>0, <1>1, <2>9, <2>10 DEF IInv, SafetyInv, OrderOwnership, rzpVars
    <2>12. HookInv'
      BY <1>0, <1>1, <1>4, <2>10 DEF IInv, HookInv, rzpVars
    <2>13. \A v \in User : HasSub(v) => HasSub(v)'
      BY <2>2, <2>3, NoSubAssumption DEF IInv, TypeOK, HasSub
    <2>14. OfferedInv'
      BY <1>0, <2>13 DEF IInv, TypeOK, OfferedInv, Opened, rzpVars
    <2>15. IssuedInv' /\ RequestInv' /\ RecordUnique'
      BY <1>0 DEF IInv, IssuedInv, RequestInv, RecordUnique, At, rzpVars
    <2>16. AuditedActivationWasPaid'
      BY <1>0, QuietAudit DEF rzpVars
    <2>17. TypeOK'
      BY <1>0, <1>1, <1>4, <2>8, <2>10 DEF IInv, TypeOK, RzpTypeOK, rzpVars
    <2>18. QED
      BY <2>8, <2>11, <2>12, <2>14, <2>15, <2>16, <2>17
         DEF IInv, SafetyInv, OrderOwnership
  <1>5. QED
    BY <1>3, <1>4 DEF WebhookApply

(***************************************************************************)
(* The theorems.                                                           *)
(***************************************************************************)
\* Whatever steps, the inductive invariant survives: one case per action of Next.
LEMMA StepInv == IInv /\ [Next]_vars => IInv'
  <1> SUFFICES ASSUME IInv, [Next]_vars PROVE IInv'
      OBVIOUS
  <1>1. ASSUME NEW r \in Request, Arrive(r) PROVE IInv'
    <2>1. ASSUME NEW u \in User, Cancel(r, u) PROVE IInv'
      BY <2>1, StepCancel
    <2>2. ASSUME NEW u \in User, AdminEraseStart(r, u) PROVE IInv'
      BY <2>2, StepAdminEraseStart
    <2>3. ASSUME NEW u \in User, NEW t \in Tier,
                 SubscribeStart(r, u, t) \/ AdminSetStart(r, u, t)
          PROVE  IInv'
      BY <2>3, StepSubscribeStart, StepAdminSetStart
    <2>4. ASSUME NEW t \in PaidTier, NEW p \in Prices, AdminSetPrice(r, t, p)
          PROVE  IInv'
      BY <2>4, StepAdminSetPrice
    <2>5. QED
      BY <1>1, <2>1, <2>2, <2>3, <2>4 DEF Arrive
  <1>2. ASSUME NEW r \in Request, Handle(r) PROVE IInv'
    BY <1>2, StepSubscribeActivate, StepSubscribeCharge, StepSubscribeRecord,
       StepAdminSetWrite, StepAdminEraseDelete, StepAuditWrite DEF Handle
  <1>3. ASSUME NEW r \in Request, CrashRequest(r) PROVE IInv'
    BY <1>3, StepCrashRequest
  <1>4. ASSUME NEW e \in Event, Webhook(e) PROVE IInv'
    BY <1>4, StepWebhookFind, StepWebhookApply, StepWebhookAudit DEF Webhook
  <1>5. ASSUME NEW e \in Event, CrashHook(e) PROVE IInv'
    BY <1>5, StepCrashHook
  <1>6. ASSUME NEW o \in Order, Checkout(o) PROVE IInv'
    BY <1>6, StepCheckout
  <1>7. CASE Tick
    BY <1>7, StepTick
  <1>8. CASE UNCHANGED vars
    <2> USE <1>8 DEF vars, rzpVars
    <2>1. SafetyInv' /\ OfferedInv' /\ IssuedInv' /\ HookInv'
      BY QuietStep
    <2>2. RequestInv' /\ RecordUnique'
      BY DEF IInv, RequestInv, RecordUnique, At
    <2>3. TypeOK'
      BY DEF IInv, TypeOK, RzpTypeOK
    <2>4. QED
      BY <2>1, <2>2, <2>3 DEF IInv
  <1>9. QED
    BY <1>1, <1>2, <1>3, <1>4, <1>5, <1>6, <1>7, <1>8 DEF Next

\* The inductive invariant holds in every reachable state.
THEOREM Invariance == Spec => []IInv
  <1>1. Init => IInv
    BY InitInv
  <1>2. IInv /\ [Next]_vars => IInv'
    BY StepInv
  <1>3. QED
    BY <1>1, <1>2, PTL DEF Spec

\* Every row, order, event and suspended handler keeps its type: in particular the
\* webhook only ever stores statuses of the enum.
THEOREM TypeCorrect == Spec => []TypeOK
  <1>1. IInv => TypeOK
    BY DEF IInv
  <1>2. QED
    BY <1>1, Invariance, PTL

\* A payment never touches the subscription of anybody but the user that opened
\* its order, however requests, deliveries, erasures and crashes interleave.
THEOREM PaymentsStayWithTheirUser == Spec => []OrderOwnership
  <1>1. IInv => OrderOwnership
    BY DEF IInv, SafetyInv
  <1>2. QED
    BY <1>1, Invariance, PTL

\* Nobody gets an active paid plan without a settled order or a grant.
THEOREM PaidPlansAreEarned == Spec => []PaidPlanIsEarned
  <1>1. IInv => PaidPlanIsEarned
    BY DEF IInv, SafetyInv
  <1>2. QED
    BY <1>1, Invariance, PTL

\* past_due is only ever the consequence of a declined attempt of the same user.
THEOREM FailuresAreReal == Spec => []PastDueHasFailure
  <1>1. IInv => PastDueHasFailure
    BY DEF IInv, SafetyInv
  <1>2. QED
    BY <1>1, Invariance, PTL

\* A pending subscription waits for the order of its own plan, for any number of
\* orders and concurrent requests.
THEOREM PendingKnowsItsOrder == Spec => []PendingMatchesOrder
  <1>1. IInv => PendingMatchesOrder
    BY DEF IInv, SafetyInv
  <1>2. QED
    BY <1>1, Invariance, PTL

\* No request under way at the time resurrects the subscription of an erased user.
THEOREM ErasureIsFinal == Spec => []ErasedLeavesNothing
  <1>1. IInv => ErasedLeavesNothing
    BY DEF IInv, SafetyInv
  <1>2. QED
    BY <1>1, Invariance, PTL

\* The provider is never told 2xx about an event that still had to be applied.
THEOREM AckedEventsAreSettled == Spec => []AckedIsSettled
  <1>1. IInv => AckedIsSettled
    BY DEF IInv, SafetyInv
  <1>2. QED
    BY <1>1, Invariance, PTL

\* No activation is logged that no payment stands behind.
THEOREM ActivationLogIsTruthful == Spec => []AuditedActivationWasPaid
  <1>1. IInv => AuditedActivationWasPaid
    BY DEF IInv, SafetyInv
  <1>2. QED
    BY <1>1, Invariance, PTL
------------------------------------------------------------------------------
(* Billing implements SubscriptionContract *)

\* Only a paid tier is ever charged for: what a request that waits for Razorpay,
\* or for the upsert after it, remembers of GoLive.
ChargedTierInv ==
    \A r \in Request : request[r].pc \in {"charge", "record"}
                       => request[r].tier # "free"

\* ChargedTierInv is an invariant: only GoLive leads into `charge`, and only
\* `charge` leads into `record`.
LEMMA ChargedTier == Spec => []ChargedTierInv
  <1>1. Init => ChargedTierInv
    <2>1. IdleRequest.pc = "idle"
      BY DEF IdleRequest
    <2>2. QED
      BY <2>1 DEF Init, ChargedTierInv
  <1>2. IInv /\ ChargedTierInv /\ [Next]_vars => ChargedTierInv'
    <2> SUFFICES ASSUME IInv, ChargedTierInv, [Next]_vars PROVE ChargedTierInv'
        OBVIOUS
    <2>0. request \in [Request -> RequestRow]
      BY DEF IInv, TypeOK
    <2>1. ASSUME NEW r \in Request, NEW pc, NEW u, NEW t, NEW o, NEW a,
                 Suspend(r, pc, u, t, o, a),
                 pc \in {"charge", "record"} => t # "free"
          PROVE  ChargedTierInv'
      BY <2>0, <2>1 DEF ChargedTierInv, Suspend
    <2>2. ASSUME NEW r \in Request, Finish(r) PROVE ChargedTierInv'
      BY <2>0, <2>2 DEF ChargedTierInv, Finish, IdleRequest
    <2>3. ASSUME UNCHANGED request PROVE ChargedTierInv'
      BY <2>3 DEF ChargedTierInv
    <2>4. ASSUME NEW r \in Request, Arrive(r) PROVE ChargedTierInv'
      <3>1. ASSUME NEW u \in User, NEW t \in Tier, SubscribeStart(r, u, t)
            PROVE  ChargedTierInv'
        <4>1. CASE GoLive(t)
          BY <3>1, <4>1, <2>1 DEF SubscribeStart, GoLive
        <4>2. CASE ~GoLive(t)
          BY <3>1, <4>2, <2>1 DEF SubscribeStart
        <4>3. QED
          BY <4>1, <4>2
      <3>2. ASSUME NEW u \in User, Cancel(r, u) \/ AdminEraseStart(r, u)
            PROVE  ChargedTierInv'
        BY <3>2, <2>1 DEF Cancel, AdminEraseStart
      <3>3. ASSUME NEW u \in User, NEW t \in Tier, AdminSetStart(r, u, t)
            PROVE  ChargedTierInv'
        BY <3>3, <2>1 DEF AdminSetStart
      <3>4. ASSUME NEW t \in PaidTier, NEW p \in Prices, AdminSetPrice(r, t, p)
            PROVE  ChargedTierInv'
        BY <3>4, <2>1 DEF AdminSetPrice
      <3>5. QED
        BY <2>4, <3>1, <3>2, <3>3, <3>4 DEF Arrive
    <2>5. ASSUME NEW r \in Request, Handle(r) PROVE ChargedTierInv'
      <3>1. CASE SubscribeCharge(r)
        BY <3>1, <2>1, <2>2 DEF SubscribeCharge, ChargedTierInv, At
      <3>2. CASE AdminSetWrite(r)
        BY <3>2, <2>1, <2>2 DEF AdminSetWrite
      <3>3. CASE SubscribeActivate(r) \/ SubscribeRecord(r) \/ AdminEraseDelete(r)
                 \/ AuditWrite(r)
        BY <3>3, <2>2 DEF SubscribeActivate, SubscribeRecord, AdminEraseDelete,
           AuditWrite
      <3>4. QED
        BY <2>5, <3>1, <3>2, <3>3 DEF Handle
    <2>6. ASSUME NEW r \in Request, CrashRequest(r) PROVE ChargedTierInv'
      BY <2>6, <2>2 DEF CrashRequest
    <2>7. ASSUME NEW e \in Event, Webhook(e) \/ CrashHook(e) PROVE ChargedTierInv'
      BY <2>7, <2>3 DEF Webhook, WebhookFind, WebhookApply, WebhookAudit, CrashHook
    <2>8. ASSUME NEW o \in Order, Checkout(o) PROVE ChargedTierInv'
      BY <2>8, <2>3 DEF Checkout
    <2>9. CASE Tick \/ UNCHANGED vars
      BY <2>9, <2>3 DEF Tick, vars
    <2>10. QED
      BY <2>4, <2>5, <2>6, <2>7, <2>8, <2>9 DEF Next
  <1>3. QED
    BY <1>1, <1>2, Invariance, PTL DEF Spec

(***************************************************************************)
(* How the abstract state moves.                                           *)
(***************************************************************************)
\* Writing one row changes one user's standing and plan, as the row says.
LEMMA RowMaps ==
    ASSUME IInv, NEW u \in User, NEW row \in SubRow, sub' = [sub EXCEPT ![u] = row]
    PROVE  /\ standing' = [standing EXCEPT ![u] = row.status]
           /\ paidPlan' = IF row.plan = "free" THEN paidPlan \ {u}
                          ELSE paidPlan \cup {u}
  <1>1. /\ sub \in [User -> SubRow \cup {NoSub}]
        /\ row # NoSub
    BY NoSubAssumption DEF IInv, TypeOK
  <1>2. /\ sub'[u] = row
        /\ \A v \in User : v # u => sub'[v] = sub[v]
    BY <1>1
  <1>3. standing' = [standing EXCEPT ![u] = row.status]
    BY <1>1, <1>2 DEF standing, HasSub
  <1>4. paidPlan' = IF row.plan = "free" THEN paidPlan \ {u} ELSE paidPlan \cup {u}
    BY <1>1, <1>2 DEF paidPlan, HasSub
  <1>5. QED
    BY <1>3, <1>4

\* Standings and plans are read off the subscription table.
LEMMA SameRows == ASSUME UNCHANGED sub PROVE UNCHANGED <<standing, paidPlan>>
  BY DEF standing, paidPlan, HasSub

\* The evidence is read off orders and events ...
LEMMA SameEvidence ==
    ASSUME UNCHANGED <<order, issued>> PROVE UNCHANGED <<asked, settled, declined>>
  BY DEF asked, settled, declined, Captured, FailedOnce

\* ... and off the grants.
LEMMA SameGrants == ASSUME UNCHANGED granted PROVE UNCHANGED comped
  BY DEF comped

\* Steps the contract does not see.
LEMMA Unseen ==
    ASSUME UNCHANGED <<order, issued, users, sub, granted>>
    PROVE  UNCHANGED Contract!contractVars
  BY SameRows, SameEvidence, SameGrants DEF Contract!contractVars
(***************************************************************************)
(* Steps of the contract, under the invariants.                            *)
(***************************************************************************)
\* The immediate upsert is an activation: the free plan, or a gift.
LEMMA ActivateMaps ==
    ASSUME IInv, NEW u \in users, NEW t \in Tier, ActivateRow(u, t), Grant(u, t),
           UNCHANGED <<order, issued, users>>
    PROVE  Contract!Activate(u)
  <1> DEFINE row == [plan |-> t, status |-> "active", periodEnd |-> now + Period,
                     order |-> IF HasSub(u) THEN sub[u].order ELSE NoOrder]
  <1>1. u \in User /\ now + Period \in Nat
    BY BillingAssumption DEF IInv, TypeOK
  <1>2. row \in SubRow /\ row.status = "active" /\ row.plan = t
    BY <1>1, SubIsRow DEF IInv, SubRow, Status
  <1> HIDE DEF row
  <1>3. sub' = [sub EXCEPT ![u] = row]
    BY DEF ActivateRow, row
  <1>4. /\ standing' = [standing EXCEPT ![u] = "active"]
        /\ paidPlan' = IF t = "free" THEN paidPlan \ {u} ELSE paidPlan \cup {u}
    BY <1>1, <1>2, <1>3, RowMaps
  <1>5. CASE t = "free"
    BY <1>4, <1>5, SameEvidence, SameGrants
       DEF Grant, Contract!Activate, Contract!Stands
  <1>6. CASE t # "free"
    <2>1. granted' = granted \cup {<<u, t>>}
      BY <1>6 DEF Grant
    <2>2. comped' = comped \cup {u}
      <3>1. ASSUME NEW v \in comped' PROVE v \in comped \cup {u}
        BY <2>1, <3>1 DEF comped
      <3>2. ASSUME NEW v \in comped \cup {u} PROVE v \in comped'
        BY <1>1, <2>1, <3>2 DEF comped
      <3>3. QED
        BY <3>1, <3>2
    <2>3. QED
      BY <1>4, <1>6, <2>2, SameEvidence DEF Contract!Activate, Contract!Stands
  <1>7. QED
    BY <1>5, <1>6

\* updateMany is a cancellation, or nothing for a user without a row.
LEMMA CancelMaps ==
    ASSUME IInv, NEW u \in User, CancelRow(u),
           UNCHANGED <<order, issued, users, granted>>
    PROVE  Contract!CancelAny(u) \/ UNCHANGED Contract!contractVars
  <1>1. CASE ~HasSub(u)
    BY <1>1, Unseen DEF CancelRow
  <1>2. CASE HasSub(u)
    <2> DEFINE row == WithStatus(sub[u], "canceled", sub[u].periodEnd)
    <2>1. /\ row \in SubRow /\ row.status = "canceled" /\ row.plan = sub[u].plan
      BY <1>2, SubIsRow DEF IInv, WithStatus, SubRow, Status
    <2> HIDE DEF row
    <2>2. sub' = [sub EXCEPT ![u] = row]
      BY <1>2 DEF CancelRow, row
    <2>3. standing' = [standing EXCEPT ![u] = "canceled"]
      BY <2>1, <2>2, RowMaps
    <2>4. paidPlan' = paidPlan
      <3>1. u \in paidPlan <=> sub[u].plan # "free"
        BY <1>2 DEF paidPlan
      <3>2. paidPlan' = IF row.plan = "free" THEN paidPlan \ {u} ELSE paidPlan \cup {u}
        BY <2>1, <2>2, RowMaps
      <3>3. CASE row.plan = "free"
        BY <2>1, <3>1, <3>2, <3>3
      <3>4. CASE row.plan # "free"
        BY <2>1, <3>1, <3>2, <3>4
      <3>5. QED
        BY <3>3, <3>4
    <2>5. standing[u] # "none"
      BY <1>2, SubIsRow DEF IInv, standing, Status
    <2>6. QED
      BY <2>3, <2>4, <2>5, SameEvidence, SameGrants
         DEF Contract!CancelAny, Contract!Stands
  <1>3. QED
    BY <1>1, <1>2

\* The upsert after createOrder hands the order out and asks for its payment.
LEMMA RecordMaps ==
    ASSUME IInv, ChargedTierInv, NEW r \in Request, SubscribeRecord(r)
    PROVE  (\E u \in User : Contract!Ask(u)) \/ UNCHANGED Contract!contractVars
  <1>0. /\ request[r].user \in User /\ request[r].tier \in Tier
        /\ request[r].order \in Order
        /\ order[request[r].order].user = request[r].user
        /\ request[r].tier # "free"
    BY DEF SubscribeRecord, IInv, TypeOK, RequestRow, RequestInv, At, ChargedTierInv
  <1> PICK u \in User, t \in Tier, o \in Order :
        u = request[r].user /\ t = request[r].tier /\ o = request[r].order
    BY <1>0
  <1>1. CASE UNCHANGED <<sub, order>>
    BY <1>1, Unseen DEF SubscribeRecord
  <1>2. CASE u \in users /\ PendingRow(u, t, o) /\ Offer(o)
    <2> DEFINE row == [plan |-> t, status |-> "trialing", order |-> o,
                       periodEnd |-> IF HasSub(u) THEN sub[u].periodEnd ELSE NoTime]
    <2>1. row \in SubRow /\ row.status = "trialing" /\ row.plan = t
      BY SubIsRow DEF IInv, SubRow, Status, NoTime
    <2> HIDE DEF row
    <2>2. sub' = [sub EXCEPT ![u] = row]
      BY <1>2 DEF PendingRow, row
    <2>3. /\ standing' = [standing EXCEPT ![u] = "trialing"]
          /\ paidPlan' = paidPlan \cup {u}
      BY <1>0, <2>1, <2>2, RowMaps
    <2>4. /\ \A p \in Order : /\ order'[p].user = order[p].user
                              /\ p # o => (order'[p].offered <=> order[p].offered)
          /\ order'[o].offered /\ order[o].user = u
      <3> DEFINE y == [user |-> order[o].user, tier |-> order[o].tier, offered |-> TRUE]
      <3>1. order \in [Order -> OrderRow]
        BY DEF IInv, TypeOK, RzpTypeOK
      <3>2. y.user = order[o].user /\ y.offered
        OBVIOUS
      <3> HIDE DEF y
      <3>3. order' = [order EXCEPT ![o] = y]
        BY <1>2 DEF Offer, y
      <3>4. QED
        BY <1>0, <3>1, <3>2, <3>3
    <2>5. asked' = asked \cup {u}
      <3>1. ASSUME NEW v \in asked' PROVE v \in asked \cup {u}
        BY <2>4, <3>1 DEF asked
      <3>2. ASSUME NEW v \in asked \cup {u} PROVE v \in asked'
        BY <2>4, <3>2 DEF asked
      <3>3. QED
        BY <3>1, <3>2
    <2>6. \A p \in Order : /\ Captured(p)' <=> Captured(p)
                           /\ FailedOnce(p)' <=> FailedOnce(p)
      BY DEF SubscribeRecord, Captured, FailedOnce
    <2>7. settled' = settled
      BY <2>4, <2>6 DEF settled
    <2>7a. declined' = declined
      BY <2>4, <2>6 DEF declined
    <2>8. UNCHANGED <<users, comped>>
      BY SameGrants DEF SubscribeRecord
    <2>9. QED
      BY <1>2, <2>3, <2>5, <2>7, <2>7a, <2>8 DEF Contract!Ask, Contract!Stands
  <1>3. QED
    BY <1>1, <1>2 DEF SubscribeRecord

\* Opening an order at the provider is invisible: nobody was handed it yet.
LEMMA ChargeMaps ==
    ASSUME IInv, NEW r \in Request, SubscribeCharge(r)
    PROVE  UNCHANGED Contract!contractVars
  <1>1. CASE UNCHANGED rzpVars
    BY <1>1, Unseen DEF SubscribeCharge, rzpVars
  <1>2. ASSUME NEW o \in Order, NEW u, NEW t, CreateOrder(o, u, t)
        PROVE  UNCHANGED Contract!contractVars
    <2>1. /\ order \in [Order -> OrderRow]
          /\ ~order'[o].offered
          /\ \A p \in Order : p # o => order'[p] = order[p]
      BY <1>2 DEF CreateOrder, IInv, TypeOK, RzpTypeOK
    <2>2. ~order[o].offered
      BY <1>2 DEF CreateOrder, IInv, OfferedInv
    <2>3. ~Captured(o) /\ ~FailedOnce(o)
      BY <2>2 DEF IInv, IssuedInv, Captured, FailedOnce
    <2>4. UNCHANGED <<issued, users, sub, granted>>
      BY <1>2 DEF CreateOrder, SubscribeCharge
    <2>5. \A p \in Order : /\ Captured(p)' = Captured(p)
                           /\ FailedOnce(p)' = FailedOnce(p)
      BY <2>4 DEF Captured, FailedOnce
    <2>6. asked' = asked
      BY <2>1, <2>2 DEF asked
    <2>7. settled' = settled
      BY <2>1, <2>3, <2>5 DEF settled
    <2>8. declined' = declined
      BY <2>1, <2>3, <2>5 DEF declined
    <2>9. QED
      BY <2>4, <2>6, <2>7, <2>8, SameRows, SameGrants DEF Contract!contractVars
  <1>3. QED
    BY <1>1, <1>2 DEF SubscribeCharge

\* A payment or a declined attempt at Checkout, by the user the order was handed to.
LEMMA CheckoutMaps ==
    ASSUME IInv, NEW o \in Order, Checkout(o)
    PROVE  (\E u \in User : Contract!Pay(u)) \/ UNCHANGED Contract!contractVars
  <1>0. order[o].offered /\ order[o].user \in User
    BY RazorpayAssumption DEF Checkout, Capture, FailAttempt, IInv, OfferedInv,
       Opened, TypeOK, RzpTypeOK, OrderRow
  <1> PICK u \in User : u = order[o].user
    BY <1>0
  <1>1. /\ u \in asked
        /\ UNCHANGED <<order, users, sub, granted>>
        /\ UNCHANGED <<standing, paidPlan, asked, comped>>
    BY <1>0, SameRows, SameGrants DEF asked, Checkout, Capture, FailAttempt
  <1>2. CASE Capture(o)
    <2>1. issued' = issued \cup [order : {o}, kind : PaidKind]
      BY <1>2 DEF Capture
    <2>2. \A p \in Order : /\ FailedOnce(p)' = FailedOnce(p)
                           /\ p # o => Captured(p)' = Captured(p)
      BY <2>1 DEF FailedOnce, Captured, PaidKind
    <2>3. Captured(o)'
      <3> PICK k \in PaidKind : TRUE
        BY RazorpayAssumption
      <3>1. [order |-> o, kind |-> k] \in issued'
        BY <2>1
      <3>2. QED
        BY <3>1 DEF Captured
    <2>4. settled' = settled \cup {u}
      BY <1>1, <2>2, <2>3 DEF settled
    <2>5. declined' = declined
      BY <1>1, <2>2 DEF declined
    <2>6. QED
      BY <1>1, <2>4, <2>5 DEF Contract!Pay
  <1>3. CASE FailAttempt(o)
    <2>1. issued' = issued \cup [order : {o}, kind : EventKind \ PaidKind]
      BY <1>3 DEF FailAttempt
    <2>2. \A p \in Order : /\ Captured(p)' = Captured(p)
                           /\ p # o => FailedOnce(p)' = FailedOnce(p)
                           /\ FailedOnce(p) => FailedOnce(p)'
      BY <2>1 DEF FailedOnce, Captured
    <2>3. settled' = settled
      BY <1>1, <2>2 DEF settled
    <2>4. declined' = declined \/ declined' = declined \cup {u}
      BY <1>1, <2>2 DEF declined
    <2>5. QED
      BY <1>1, <2>3, <2>4 DEF Contract!Pay, Contract!contractVars
  <1>4. QED
    BY <1>2, <1>3 DEF Checkout

\* The UPDATE of a delivery confirms or fails the order's own user, on the
\* strength of the announced event.
LEMMA ApplyMaps ==
    ASSUME IInv, NEW e \in Event, WebhookApply(e)
    PROVE  (\E u \in User : Contract!Confirm(u)) \/ UNCHANGED Contract!contractVars
  <1>0. /\ hook[e].pc = "found"
        /\ UNCHANGED <<order, issued, users, granted>>
    BY DEF WebhookApply, rzpVars
  <1>1. /\ e \in issued /\ e.order \in Order /\ e.kind \in EventKind
        /\ order[e.order].user = hook[e].user /\ order[e.order].offered
    BY <1>0 DEF IInv, HookInv, SafetyInv, OrderOwnership, IssuedInv, Event
  <1>2. order[e.order].user \in User
    BY <1>1, RazorpayAssumption
       DEF IInv, TypeOK, RzpTypeOK, OrderRow, OfferedInv, Opened
  <1> PICK u \in User : u = hook[e].user
    BY <1>1, <1>2
  <1>3. CASE UNCHANGED sub
    BY <1>0, <1>3, Unseen
  <1>4. CASE HasSub(u) /\ sub' = [sub EXCEPT ![u] = Applied(@, e.kind)]
    <2> DEFINE row == Applied(sub[u], e.kind)
    <2>1. /\ sub[u].plan \in Tier /\ sub[u].order \in Order \cup {NoOrder}
          /\ sub[u].periodEnd \in Nat /\ now + Period \in Nat
          /\ sub[u].status \in Status
      BY <1>4, SubIsRow, BillingAssumption DEF IInv, TypeOK
    <2>2. /\ row \in SubRow /\ row.plan = sub[u].plan
          /\ \/ row.status = "active" /\ Captured(e.order)
             \/ row.status = "past_due" /\ FailedOnce(e.order)
      <3>1. CASE e.kind \in PaidKind
        BY <1>1, <2>1, <3>1 DEF Applied, WithStatus, SubRow, Status, Captured
      <3>2. CASE e.kind \notin PaidKind
        <4>1. e.kind = "payment.failed"
          BY <1>1, <3>2, RazorpayAssumption DEF PaidKind
        <4>2. QED
          BY <1>1, <2>1, <3>2, <4>1 DEF Applied, WithStatus, SubRow, Status, FailedOnce
      <3>3. QED
        BY <3>1, <3>2
    <2> HIDE DEF row
    <2>3. sub' = [sub EXCEPT ![u] = row]
      BY <1>4 DEF row
    <2>4. standing' = [standing EXCEPT ![u] = row.status]
      BY <2>2, <2>3, RowMaps
    <2>5. paidPlan' = paidPlan
      <3>1. u \in paidPlan <=> sub[u].plan # "free"
        BY <1>4 DEF paidPlan
      <3>2. paidPlan' = IF row.plan = "free" THEN paidPlan \ {u} ELSE paidPlan \cup {u}
        BY <2>2, <2>3, RowMaps
      <3>3. CASE row.plan = "free"
        BY <2>2, <3>1, <3>2, <3>3
      <3>4. CASE row.plan # "free"
        BY <2>2, <3>1, <3>2, <3>4
      <3>5. QED
        BY <3>3, <3>4
    <2>6. standing[u] # "none"
      BY <1>4, <2>1 DEF standing, Status
    <2>7. \/ row.status = "active" /\ u \in settled
          \/ row.status = "past_due" /\ u \in declined
      BY <1>1, <2>2 DEF settled, declined
    <2>8. QED
      BY <1>0, <2>4, <2>5, <2>6, <2>7, SameEvidence, SameGrants
         DEF Contract!Confirm, Contract!Stands
  <1>5. QED
    BY <1>3, <1>4 DEF WebhookApply

\* The DELETE takes the standing along.
LEMMA EraseMaps ==
    ASSUME IInv, NEW r \in Request, AdminEraseDelete(r)
    PROVE  \E u \in User : Contract!Erase(u)
  <1>0. request[r].user \in User
    BY DEF AdminEraseDelete, IInv, RequestInv, At
  <1> PICK u \in User : u = request[r].user
    BY <1>0
  <1>1. /\ users' = users \ {u}
        /\ sub'[u] = NoSub
        /\ \A v \in User : v # u => sub'[v] = sub[v]
        /\ UNCHANGED <<order, issued, granted>>
    BY DEF AdminEraseDelete, IInv, TypeOK, rzpVars
  <1>2. standing' = [standing EXCEPT ![u] = "none"]
    BY <1>1 DEF standing, HasSub
  <1>3. paidPlan' = paidPlan \ {u}
    BY <1>1 DEF paidPlan, HasSub
  <1>4. QED
    BY <1>1, <1>2, <1>3, SameEvidence, SameGrants DEF Contract!Erase, Contract!Stands

(***************************************************************************)
(* The refinement.                                                         *)
(***************************************************************************)
\* Before anything happened nobody has a standing, an order or a grant.
LEMMA InitMaps == Init => Contract!ContractInit
  <1> SUFFICES ASSUME Init PROVE Contract!ContractInit
      OBVIOUS
  <1>1. users = User /\ standing = [u \in User |-> "none"] /\ paidPlan = {}
    BY DEF Init, standing, paidPlan, HasSub
  <1>2. asked = {} /\ settled = {} /\ declined = {}
    BY DEF Init, RzpInit, asked, settled, declined, Captured, FailedOnce
  <1>3. comped = {}
    BY DEF Init, comped
  <1>4. QED
    BY <1>1, <1>2, <1>3 DEF Contract!ContractInit

\* One case per action of Next: a step of the contract for one user, or none.
LEMMA StepMaps ==
    IInv /\ ChargedTierInv /\ [Next]_vars
        => [Contract!ContractNext]_(Contract!contractVars)
  <1> SUFFICES ASSUME IInv, ChargedTierInv, [Next]_vars
               PROVE  Contract!ContractNext \/ UNCHANGED Contract!contractVars
      OBVIOUS
  <1> USE DEF Contract!ContractNext
  <1>0. users \subseteq User
    BY DEF IInv, TypeOK
  <1>1. ASSUME NEW r \in Request, Arrive(r)
        PROVE  Contract!ContractNext \/ UNCHANGED Contract!contractVars
    <2>1. ASSUME NEW u \in User, Cancel(r, u)
          PROVE  Contract!ContractNext \/ UNCHANGED Contract!contractVars
      BY <2>1, CancelMaps DEF Cancel, rzpVars
    <2>2. ASSUME NEW u \in User, AdminEraseStart(r, u)
          PROVE  UNCHANGED Contract!contractVars
      BY <2>2, Unseen DEF AdminEraseStart, rzpVars
    <2>3. ASSUME NEW u \in User, NEW t \in Tier,
                 SubscribeStart(r, u, t) \/ AdminSetStart(r, u, t)
          PROVE  UNCHANGED Contract!contractVars
      BY <2>3, Unseen DEF SubscribeStart, AdminSetStart, rzpVars
    <2>4. ASSUME NEW t \in PaidTier, NEW p \in Prices, AdminSetPrice(r, t, p)
          PROVE  UNCHANGED Contract!contractVars
      BY <2>4, Unseen DEF AdminSetPrice, rzpVars
    <2>5. QED
      BY <1>1, <2>1, <2>2, <2>3, <2>4 DEF Arrive
  <1>2. ASSUME NEW r \in Request, Handle(r)
        PROVE  Contract!ContractNext \/ UNCHANGED Contract!contractVars
    <2>0. request[r].pc # "idle" /\ request[r].pc # "audit" =>
             request[r].user \in User /\ request[r].tier \in Tier
      BY DEF IInv, TypeOK, RequestRow, RequestInv
    <2>1. CASE SubscribeActivate(r)
      <3>1. CASE request[r].user \in users
        BY <1>0, <2>0, <2>1, <3>1, ActivateMaps DEF SubscribeActivate, At, rzpVars
      <3>2. CASE request[r].user \notin users
        BY <2>1, <3>2, Unseen DEF SubscribeActivate, rzpVars
      <3>3. QED
        BY <3>1, <3>2
    <2>2. CASE SubscribeCharge(r)
      BY <2>2, ChargeMaps
    <2>3. CASE SubscribeRecord(r)
      BY <2>3, RecordMaps
    <2>4. CASE AdminSetWrite(r)
      <3>0. /\ request[r].user \in User /\ request[r].tier \in Tier
            /\ UNCHANGED <<order, issued, users>>
        BY <2>0, <2>4 DEF AdminSetWrite, At, rzpVars
      <3>1. CASE CancelRow(request[r].user) /\ UNCHANGED granted
        BY <3>0, <3>1, CancelMaps
      <3>2. CASE /\ request[r].user \in users
                 /\ ActivateRow(request[r].user, request[r].tier)
                 /\ Grant(request[r].user, request[r].tier)
        BY <3>0, <3>2, ActivateMaps
      <3>3. CASE UNCHANGED <<sub, granted>>
        BY <3>0, <3>3, Unseen
      <3>4. QED
        BY <2>4, <3>1, <3>2, <3>3 DEF AdminSetWrite
    <2>5. CASE AdminEraseDelete(r)
      BY <2>5, EraseMaps
    <2>6. CASE AuditWrite(r)
      BY <2>6, Unseen DEF AuditWrite, rzpVars
    <2>7. QED
      BY <1>2, <2>1, <2>2, <2>3, <2>4, <2>5, <2>6 DEF Handle
  <1>3. ASSUME NEW r \in Request, CrashRequest(r)
        PROVE  UNCHANGED Contract!contractVars
    BY <1>3, Unseen DEF CrashRequest, rzpVars
  <1>4. ASSUME NEW e \in Event, Webhook(e)
        PROVE  Contract!ContractNext \/ UNCHANGED Contract!contractVars
    <2>1. CASE WebhookFind(e)
      BY <2>1, Unseen DEF WebhookFind
    <2>2. CASE WebhookApply(e)
      BY <2>2, ApplyMaps
    <2>3. CASE WebhookAudit(e)
      BY <2>3, Unseen DEF WebhookAudit
    <2>4. QED
      BY <1>4, <2>1, <2>2, <2>3 DEF Webhook
  <1>5. ASSUME NEW e \in Event, CrashHook(e)
        PROVE  UNCHANGED Contract!contractVars
    BY <1>5, Unseen DEF CrashHook, rzpVars
  <1>6. ASSUME NEW o \in Order, Checkout(o)
        PROVE  Contract!ContractNext \/ UNCHANGED Contract!contractVars
    BY <1>6, CheckoutMaps
  <1>7. CASE Tick \/ UNCHANGED vars
    BY <1>7, Unseen DEF Tick, vars, rzpVars
  <1>8. QED
    BY <1>1, <1>2, <1>3, <1>4, <1>5, <1>6, <1>7 DEF Next

\* The service, with all its interleavings, crashes and repeated deliveries,
\* implements the contract.
THEOREM BillingImplementsContract == Spec => KeepsContract
  <1>1. Init => Contract!ContractInit
    BY InitMaps
  <1>2. IInv /\ ChargedTierInv /\ [Next]_vars
            => [Contract!ContractNext]_(Contract!contractVars)
    BY StepMaps
  <1>3. QED
    BY <1>1, <1>2, Invariance, ChargedTier, PTL
       DEF Spec, KeepsContract, Contract!ContractSpec

\* Every behaviour of the contract gives Evidence, which is inductive there.
THEOREM ContractGivesEvidence == Contract!ContractSpec => []Contract!Evidence
  <1> DEFINE Inv == Contract!ContractTypeOK /\ Contract!Evidence
  <1>1. Contract!ContractInit => Inv
    BY DEF Contract!ContractInit, Contract!ContractTypeOK, Contract!Evidence,
           Contract!Standing
  <1>2. Inv /\ [Contract!ContractNext]_(Contract!contractVars) => Inv'
    <2> SUFFICES ASSUME Inv, [Contract!ContractNext]_(Contract!contractVars)
                 PROVE  Inv'
        OBVIOUS
    <2> USE DEF Contract!ContractTypeOK, Contract!Evidence, Contract!Standing,
                Contract!Stands
    <2>1. ASSUME NEW u \in User, Contract!Activate(u) PROVE Inv'
      BY <2>1 DEF Contract!Activate
    <2>2. ASSUME NEW u \in User, Contract!Ask(u) PROVE Inv'
      BY <2>2 DEF Contract!Ask
    <2>3. ASSUME NEW u \in User, Contract!Pay(u) PROVE Inv'
      BY <2>3 DEF Contract!Pay
    <2>4. ASSUME NEW u \in User, Contract!Confirm(u) PROVE Inv'
      BY <2>4 DEF Contract!Confirm
    <2>5. ASSUME NEW u \in User, Contract!CancelAny(u) PROVE Inv'
      BY <2>5 DEF Contract!CancelAny
    <2>6. ASSUME NEW u \in User, Contract!Erase(u) PROVE Inv'
      BY <2>6 DEF Contract!Erase
    <2>7. CASE UNCHANGED Contract!contractVars
      BY <2>7 DEF Contract!contractVars
    <2>8. QED
      BY <2>1, <2>2, <2>3, <2>4, <2>5, <2>6, <2>7 DEF Contract!ContractNext
  <1>3. Inv => Contract!Evidence
    OBVIOUS
  <1>4. QED
    BY <1>1, <1>2, <1>3, PTL DEF Contract!ContractSpec

\* So the service, whatever its interleavings, shows no standing without its
\* evidence: the contract is of use, not only kept.
THEOREM ServiceGivesEvidence == Spec => []Contract!Evidence
  BY BillingImplementsContract, ContractGivesEvidence, PTL DEF KeepsContract
=============================================================================
