----------------------------- MODULE MCBilling -----------------------------
(* Bounds for Billing: small sets of users, orders and concurrent requests. *)
EXTENDS BillingRefinement, TLC

TwoTiers   == {"free", "premium"}
ZeroOrPaid == {0, 1}
Charged    == {1}
PaidOnly   == {"order.paid"}
TwoKinds   == {"order.paid", "payment.failed"}
PerPayment == {"payment.captured", "payment.failed"}
Activation == {"subscription.activated"}
UserSymmetry  == Permutations(User) \cup Permutations(Order)
                     \cup Permutations(Request)
=============================================================================
