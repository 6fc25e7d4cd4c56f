------------------------------- MODULE MCSales -------------------------------
(* Sales on a small instance. *)
EXTENDS Sales, TLC

Symmetry == Permutations(Requests) \union Permutations(OldSales)
              \union Permutations(Products)
=============================================================================
