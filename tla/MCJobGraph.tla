----------------------------- MODULE MCJobGraph -----------------------------
EXTENDS JobGraph, TLC
Symmetry == Permutations(Delayables) \cup Permutations(Composites)
=============================================================================
