---------------------------- MODULE MCPayrollBuild ----------------------------
(* Bounded instances of PayrollBuild.                                       *)
EXTENDS PayrollBuild, TLC

Symmetry == Permutations(Cycles) \cup Permutations(Pages)
            \cup Permutations(Invocations)
=============================================================================
