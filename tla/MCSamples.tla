----------------------------- MODULE MCSamples -----------------------------
(* A sample of one material, two of it for each product, one in stock. *)
EXTENDS Samples, TLC

MCOpening == [m \in Materials |-> 1]
MCBom == [m \in Materials |-> 2]
Symmetry == Permutations(Picks) \cup Permutations(Ins)
=============================================================================
