------------------------------ MODULE MCSessions ------------------------------
(* Sessions on a small instance. *)
EXTENDS Sessions, TLC

Symmetry == Permutations(Workers) \union Permutations(Sids)
=============================================================================
