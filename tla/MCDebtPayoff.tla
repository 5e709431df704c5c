---------------------------- MODULE MCDebtPayoff ----------------------------
(* Bounds for DebtPayoff: small amounts, rates of whole percents a month. *)
EXTENDS DebtPayoff
=============================================================================
