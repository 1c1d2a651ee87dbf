--------------------------- MODULE MCOutsourcing ---------------------------
(* An outsourced order of one material, two of it for each product. *)
EXTENDS Outsourcing, TLC

MCOpening == [m \in Materials |-> 3]
MCBom == [m \in Materials |-> 2]
Symmetry == UNION {Permutations(S) : S \in {Picks, Refunds, Checks, Ins}}
=============================================================================
