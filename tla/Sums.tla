-------------------------------- MODULE Sums --------------------------------
(***************************************************************************)
(* The sums the counters of a document are compared with.  A total is the  *)
(* number of units that are added up, which can be proved about as it      *)
(* stands: a fold would need an induction.                                 *)
(***************************************************************************)
EXTENDS Integers, FiniteSets

\* One pair per unit of each value of f, a function to natural numbers.
Units(f) == UNION {{x} \X (1..f[x]) : x \in DOMAIN f}
Total(f) == Cardinality(Units(f))

\* The rows that hang on other rows: <<d, i>> for each i of rows[d].
Entries(rows) == UNION {{d} \X DOMAIN rows[d] : d \in DOMAIN rows}
RowsTotal(rows) == Total([e \in Entries(rows) |-> rows[e[1]][e[2]]])

\* What each move of each document carries of one product.
AmountsOf(moves, m) == [d \in DOMAIN moves |-> [i \in DOMAIN moves[d] |-> moves[d][i][m]]]
=============================================================================
