------------------------------ MODULE Quantity ------------------------------
(* Quantities of the 'Quantity' fields: naturals counted in 1/Unit of a piece. *)
EXTENDS Integers

CONSTANT Unit  \* model units in one whole piece

ASSUME UnitAssumption == Unit \in Nat \ {0}

\* Python's round() of a quantity to a whole piece: half goes to the even one.
RoundToPiece(x) ==
  LET whole == x \div Unit
      twice == 2 * (x % Unit)
  IN  Unit * (IF twice > Unit \/ (twice = Unit /\ whole % 2 = 1)
              THEN whole + 1 ELSE whole)
=============================================================================
