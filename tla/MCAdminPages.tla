---------------------------- MODULE MCAdminPages ----------------------------
(***************************************************************************)
(* Small instance of AdminPages: the person signed in, of any role, and one*)
(* other user on list pages of one row; one plan, one flag, two features;  *)
(* two requests of the browser at a time and one change, by anybody.       *)
(***************************************************************************)
EXTENDS AdminPages

CONSTANTS me, user, plan, flag, f1, f2

MCListedFirst == <<user, me>>

MCMatches == [text \in {"", "x"} |-> IF text = "" THEN UserId ELSE {me}]

MCStart ==
    [users |-> [u \in UserId |-> [role |-> "USER", status |-> "active", tier |-> "free"]],
     overrides |-> [u \in UserId |-> [f \in Feature |-> "default"]],
     plans |-> [k \in PlanKey |-> [active |-> TRUE, features |-> {f1}, price |-> 1]],
     flags |-> [k \in FlagKey |-> None]]
==============================================================================
