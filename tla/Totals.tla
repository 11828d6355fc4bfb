-------------------------------- MODULE Totals --------------------------------
(***************************************************************************)
(* Totals that the tables keep by adding deltas (DynamoDB's ADD), and the  *)
(* sums of the records they stand for.                                     *)
(***************************************************************************)
EXTENDS Integers, FiniteSetsExt

\* The sum of f[x] over the finite set S
Sum(S, f) == MapThenSumSet(LAMBDA x : f[x], S)

\* A total is right when it is the sum of its parts
IsTotal(S, f, v) == v = Sum(S, f)
=============================================================================
