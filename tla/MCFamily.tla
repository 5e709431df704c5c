------------------------------ MODULE MCFamily ------------------------------
(* Bounds for Family. *)
EXTENDS Family, TLC

Symmetry == Permutations(Member) \cup Permutations(Request)
=============================================================================
