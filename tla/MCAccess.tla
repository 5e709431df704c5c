------------------------------ MODULE MCAccess ------------------------------
(* Bounds for Access: one feature per tier, one string that is no feature. *)
EXTENDS Access

ThreeFeatures == {"goal_planning", "account_aggregation", "advisor_consultation"}
Junk          == {"nonsense"}
Defaults == [t \in Tier |-> CASE t = "free"       -> {"goal_planning"}
                              [] t = "premium"    -> {"account_aggregation"}
                              [] t = "family_cfo" -> {"advisor_consultation"}]
=============================================================================
