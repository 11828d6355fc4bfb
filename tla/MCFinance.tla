------------------------------ MODULE MCFinance ------------------------------
(* Bounded instances of Finance.                                             *)
EXTENDS Finance, TLC

Symmetry == Permutations(Payments) \cup Permutations(Invocations)
=============================================================================
