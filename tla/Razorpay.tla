------------------------------ MODULE Razorpay ------------------------------
(***************************************************************************)
(* EXTERNAL: the payment provider as apps/api/src/billing uses it.         *)
(* Billing opens an order for one user and one tier (createOrder), the     *)
(* customer pays it at Razorpay Checkout, possibly after failed attempts,  *)
(* and the provider announces the outcome by webhook.  An event is         *)
(* announced until the API answers 2xx and may be announced again later:   *)
(* `issued` is a set, so events are delivered in any order and any number  *)
(* of times.                                                               *)
(***************************************************************************)
CONSTANTS User,     \* identities a User row may have
          Order,    \* order ids the provider can hand out
          Tier,     \* the plan tiers
          Nobody,   \* "no user": the owner of an order not yet opened
          EventKind \* the webhook events switched on at the provider

\* A settled payment may be announced twice, once per entity.
PaidKind == {"order.paid", "payment.captured"} \cap EventKind

ASSUME RazorpayAssumption ==
    /\ Nobody \notin User
    /\ "free" \in Tier
    /\ EventKind \subseteq {"order.paid", "payment.captured", "payment.failed"}
    /\ PaidKind # {}

VARIABLES order,    \* what each order id stands for
          issued,   \* webhook events the provider has announced
          acked     \* webhook events the API has answered with 2xx

rzpVars == <<order, issued, acked>>

Event == [order : Order, kind : EventKind]

\* offered: the order id has been returned to the client.
OrderRow == [user : User \cup {Nobody}, tier : Tier, offered : BOOLEAN]

RzpTypeOK ==
    /\ order \in [Order -> OrderRow]
    /\ issued \subseteq Event
    /\ acked \subseteq issued

RzpInit ==
    /\ order = [o \in Order |->
                   [user |-> Nobody, tier |-> "free", offered |-> FALSE]]
    /\ issued = {}
    /\ acked = {}

Opened(o)   == order[o].user # Nobody
Captured(o) == \E e \in issued : e.order = o /\ e.kind \in PaidKind
FailedOnce(o) == \E e \in issued : e.order = o /\ e.kind = "payment.failed"

\* POST /v1/orders answered with a fresh id.
CreateOrder(o, u, t) ==
    /\ ~Opened(o)
    /\ order' = [order EXCEPT ![o] = [user |-> u, tier |-> t, offered |-> FALSE]]
    /\ UNCHANGED <<issued, acked>>

\* The client is handed the order id.
Offer(o) == order' = [order EXCEPT ![o] =
                [user |-> order[o].user, tier |-> order[o].tier, offered |-> TRUE]]

\* Checkout settles an order the client was handed (payment_capture: 1).
Capture(o) ==
    /\ order[o].offered
    /\ ~Captured(o)
    /\ issued' = issued \cup [order : {o}, kind : PaidKind]
    /\ UNCHANGED <<order, acked>>

\* A payment attempt on an unsettled order is declined; the customer may retry.
FailAttempt(o) ==
    /\ order[o].offered
    /\ ~Captured(o)
    /\ issued' = issued \cup [order : {o}, kind : EventKind \ PaidKind]
    /\ UNCHANGED <<order, acked>>

\* The API answered the delivery of e with 2xx.
Acknowledge(e) == acked' = acked \cup {e}
=============================================================================
