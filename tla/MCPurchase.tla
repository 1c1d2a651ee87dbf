----------------------------- MODULE MCPurchase -----------------------------
(* A purchase order of two lines, one of which may be edited down. *)
EXTENDS Purchase, TLC

MCLines == {1, 2}
MCOrderQuantities == <<{1, 2}, {1}>>
Symmetry == Permutations(Docs)
=============================================================================
