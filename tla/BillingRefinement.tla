-------------------------- MODULE BillingRefinement --------------------------
(***************************************************************************)
(* Billing, with its split handlers, orders and webhooks, implements       *)
(* SubscriptionContract: every step is one step of the contract or none.   *)
(***************************************************************************)
EXTENDS Billing

standing == [u \in User |-> IF HasSub(u) THEN sub[u].status ELSE "none"]
paidPlan == {u \in User : HasSub(u) /\ sub[u].plan # "free"}
asked    == {u \in User : \E o \in Order : order[o].user = u /\ order[o].offered}
settled  == {u \in User : \E o \in Order : order[o].user = u /\ Captured(o)}
declined == {u \in User : \E o \in Order : order[o].user = u /\ FailedOnce(o)}
comped   == {u \in User : \E t \in Tier : <<u, t>> \in granted}

Contract == INSTANCE SubscriptionContract WITH
    alive <- users, standing <- standing, paidPlan <- paidPlan, asked <- asked,
    settled <- settled, declined <- declined, comped <- comped

\* Every behaviour of the service keeps the contract: no interleaving of
\* subscribe, cancel, admin and webhook steps changes two users' standing at
\* once, activates or fails a subscription without evidence of its own user, or
\* charges a user that was not handed an order.
KeepsContract == Contract!ContractSpec
=============================================================================
