--------------------------- MODULE MCAccountSync ---------------------------
(* Bounds for AccountSync: two reported accounts. *)
EXTENDS AccountSync, TLC

TwoRefs  == {"savings", "equity"}
InOrder  == <<"savings", "equity">>
Symmetry == Permutations(Id) \cup Permutations(Sync)
=============================================================================
