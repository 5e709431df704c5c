----------------------------- MODULE MCUserPages -----------------------------
(***************************************************************************)
(* Small instance of UserPages: three things done on the pages, beside     *)
(* opening them, two rows per list, and a few cards of the dashboard at a  *)
(* time.                                                                   *)
(***************************************************************************)
EXTENDS UserPages

MCCardSets == {{"add"}, {"goals"}, {"chart"}, {"protection"}, {"coach", "second"}}
==============================================================================
