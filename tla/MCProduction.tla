---------------------------- MODULE MCProduction ----------------------------
(* A production order of one material, three of it in stock. *)
EXTENDS Production, TLC

MCOpening == [m \in Materials |-> 3]
Symmetry == UNION {Permutations(S) : S \in {Picks, Refunds, Checks, Ins}}
=============================================================================
