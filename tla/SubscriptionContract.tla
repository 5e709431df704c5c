------------------------ MODULE SubscriptionContract ------------------------
(***************************************************************************)
(* What the billing service promises about one subscription per user, with *)
(* no order ids, no webhooks and no requests: which standing may follow    *)
(* which, and on what evidence.  Each step is about a single user.         *)
(***************************************************************************)
CONSTANT User

VARIABLES alive,    \* users that exist
          standing, \* status of each user's subscription, "none" without one
          paidPlan, \* users whose subscription names a paid plan
          asked,    \* users that were handed an order to pay
          settled,  \* users with a payment the provider settled
          declined, \* users with an attempt the provider declined
          comped    \* users activated on a paid plan without an order

contractVars == <<alive, standing, paidPlan, asked, settled, declined, comped>>

Standing == {"none", "active", "trialing", "past_due", "canceled"}

ContractTypeOK ==
    /\ alive \subseteq User
    /\ standing \in [User -> Standing]
    /\ paidPlan \subseteq User
    /\ asked \subseteq User
    /\ settled \subseteq asked
    /\ declined \subseteq asked
    /\ comped \subseteq User

ContractInit ==
    /\ alive = User
    /\ standing = [u \in User |-> "none"]
    /\ paidPlan = {} /\ asked = {}
    /\ settled = {} /\ declined = {} /\ comped = {}

Stands(u, s) == standing' = [standing EXCEPT ![u] = s]

\* The plan is activated at once: the free one, or a paid one as a gift.
Activate(u) ==
    /\ u \in alive
    /\ Stands(u, "active")
    /\ \/ paidPlan' = paidPlan \ {u} /\ UNCHANGED comped
       \/ paidPlan' = paidPlan \cup {u} /\ comped' = comped \cup {u}
    /\ UNCHANGED <<alive, asked, settled, declined>>

\* A paid plan is asked for: pending, and an order to pay is handed out.
Ask(u) ==
    /\ u \in alive
    /\ Stands(u, "trialing")
    /\ paidPlan' = paidPlan \cup {u}
    /\ asked' = asked \cup {u}
    /\ UNCHANGED <<alive, settled, declined, comped>>

\* Only who was handed an order can pay, or fail to.
Pay(u) ==
    /\ u \in asked
    /\ \/ settled' = settled \cup {u} /\ UNCHANGED declined
       \/ declined' = declined \cup {u} /\ UNCHANGED settled
    /\ UNCHANGED <<alive, standing, paidPlan, asked, comped>>

\* The outcome of a payment reaches the subscription; its plan stays.
Confirm(u) ==
    /\ standing[u] # "none"
    /\ \/ u \in settled /\ Stands(u, "active")
       \/ u \in declined /\ Stands(u, "past_due")
    /\ UNCHANGED <<alive, paidPlan, asked, settled, declined, comped>>

CancelAny(u) ==
    /\ standing[u] # "none"
    /\ Stands(u, "canceled")
    /\ UNCHANGED <<alive, paidPlan, asked, settled, declined, comped>>

Erase(u) ==
    /\ alive' = alive \ {u}
    /\ Stands(u, "none")
    /\ paidPlan' = paidPlan \ {u}
    /\ UNCHANGED <<asked, settled, declined, comped>>

ContractNext ==
    \E u \in User : \/ Activate(u) \/ Ask(u) \/ Pay(u)
                    \/ Confirm(u) \/ CancelAny(u) \/ Erase(u)

ContractSpec == ContractInit /\ [][ContractNext]_contractVars
------------------------------------------------------------------------------
\* An active paid plan has a payment or a gift behind it, being past due has a
\* declined attempt, a pending plan was asked for, and the erased have nothing.
Evidence ==
    \A u \in User :
        /\ standing[u] = "active" /\ u \in paidPlan => u \in settled \cup comped
        /\ standing[u] = "past_due" => u \in declined
        /\ standing[u] = "trialing" => u \in asked /\ u \in paidPlan
        /\ u \notin alive => standing[u] = "none"
=============================================================================
