-------------------------- MODULE MCSpendingRepair --------------------------
(* Bounded instances of SpendingRepair.                                      *)
EXTENDS SpendingRepair

CONSTANTS i1, i2

\* FINANCE and WORKFORCE
OneTableEach == << Expenses, Wages >>

\* An approved expense and a wage marked as paid
ApprovedAndPaid ==
  { [r \in Ids |-> [status |-> IF r \in Expenses THEN "approved" ELSE "paid",
                    amount |-> 1]] }

\* Two rows of the project are off, written in two batches, or one of the reports
ProjectOrReports == {{"month", "wages"}, {"expenses"}}

\* One run repairs the project's totals, the other repairs them as well, or
\* repairs or reports those of the reports
TwoRuns == { <<i1, "project", TRUE>>, <<i2, "project", TRUE>>,
             <<i2, "reports", TRUE>>, <<i2, "reports", FALSE>> }
=============================================================================
