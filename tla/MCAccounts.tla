------------------------------ MODULE MCAccounts ------------------------------
(* Bounded instances of Accounts.                                            *)
EXTENDS Accounts, TLC

Symmetry == Permutations(Subs) \cup Permutations(Invocations)
=============================================================================
