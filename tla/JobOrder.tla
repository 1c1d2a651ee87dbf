------------------------------ MODULE JobOrder ------------------------------
(***************************************************************************)
(* The order in which the job queue serves jobs.                           *)
(***************************************************************************)
EXTENDS Integers

CONSTANTS
  Jobs,  \* the job objects the runner may hold
  Key    \* Key[j]: rank of j by priority, creation date and row id

\* Row ids differ, so no two jobs have the same key.
ASSUME KeyAssumption ==
  /\ Key \in [Jobs -> Nat]
  /\ \A i, j \in Jobs : Key[i] = Key[j] => i = j

\* The order of jobs without an eta.
Precedes(i, j) == Key[i] < Key[j]

\* The order of two jobs of the same queue: both have an eta or neither has (0).
EtaPrecedes(eta, i, j) == eta[i] < eta[j] \/ (eta[i] = eta[j] /\ Precedes(i, j))

First(S) == CHOOSE j \in S : \A i \in S \ {j} : Precedes(j, i)

FirstByEta(eta, S) == CHOOSE j \in S : \A i \in S \ {j} : EtaPrecedes(eta, j, i)
=============================================================================
