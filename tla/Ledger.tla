-------------------------------- MODULE Ledger --------------------------------
(***************************************************************************)
(* What posting and repairing the derived totals promise, whatever happens *)
(* in between: however a record is changed, no posting changes by how much *)
(* a total is off from the records; and a repair sets a total to what the  *)
(* records add up to at that very moment, unless it is overdue.  So a      *)
(* total that was edited or restored by hand is off until it is repaired,  *)
(* and none comes to be off otherwise.                                     *)
(*                                                                         *)
(* It says which records a total is about, and nothing of deltas, leases,  *)
(* revisions or when a repair read what.                                   *)
(***************************************************************************)
EXTENDS Totals

CONSTANTS Ids  \* of expenses and daily wages

VARIABLES
  record,   \* a status and an amount each
  total,    \* the spending of the project, its wages; expenses, pending approvals
  overdue   \* whether a repair now at work has written after its time

\* The records a total is about, and what each is worth to it
Counts == [spending |-> {"approved", "paid"}, month |-> {"approved", "paid"},
           wages |-> {"unpaid", "paid"}, expenses |-> {"approved"},
           pending |-> {"pending"}]
Worth(k, x) == IF x.status \notin Counts[k] THEN 0
               ELSE IF k = "pending" THEN 1 ELSE x.amount

\* By how much a total is off from the records
Off(k) == total[k] - Sum(Ids, [r \in Ids |-> Worth(k, record[r])])

\* A record is written, in any way; every total stays as far off as it was
Post(r) ==
  /\ record' = [record EXCEPT ![r] = record'[r]]
  /\ DOMAIN total' = DOMAIN Counts
  /\ \A k \in DOMAIN Counts : Off(k)' = Off(k)

\* A total is set to what the records add up to
Mend(k) ==
  /\ total' = [total EXCEPT ![k] = total'[k]]
  /\ Off(k)' = 0 \/ overdue'
  /\ UNCHANGED record

LedgerInit == DOMAIN record = Ids /\ DOMAIN total = DOMAIN Counts

LedgerNext ==
  \/ \E r \in Ids : Post(r)
  \/ \E k \in DOMAIN Counts : Mend(k)

LedgerSpec == LedgerInit /\ [][LedgerNext]_<< record, total >>
=============================================================================
