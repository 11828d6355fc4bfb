----------------------------- MODULE MCStockLedger -----------------------------
(* Bounded instances of StockLedger.                                         *)
EXTENDS StockLedger, TLC

Symmetry == Permutations(Projects) \cup Permutations(RequestIds)
            \cup Permutations(Indents) \cup Permutations(Invocations)
=============================================================================
