------------------------------- MODULE Finance -------------------------------
(***************************************************************************)
(* The commercial records of a project: bills, the payments that pay them, *)
(* expenses and procurement requests, from their submission over review    *)
(* and approval to their reversal, with what is kept beside them by        *)
(* deltas: the amount paid of a bill, the project's spending, the          *)
(* organization's expenses and its number of pending approvals.            *)
(*                                                                         *)
(* A request reads its record, the bill it pays and, in transact, the      *)
(* references of what it writes, and then sends one transaction whose      *)
(* condition names all it has read.  The reads are one step here, since a  *)
(* request that commits has read nothing that changed between them; what   *)
(* others do between the reads and the commit is what matters.             *)
(*                                                                         *)
(* A record's id is derived from its requestId: a request sent again finds *)
(* the record and is answered from it.  One project is modelled, and its   *)
(* totals by month and day as one: the posting date of an approved record  *)
(* does not change.  The lease of CONTROL is in SpendingRepair.            *)
(***************************************************************************)
EXTENDS Integers, FiniteSets, Totals

CONSTANTS
  Bills, Payments, Expenses, Procurements,  \* ids of records
  References,   \* numbers of invoices and of transfers
  Invocations,  \* Lambda invocations
  Submitted,    \* statuses a record is submitted with: "draft", "pending"
  MaxAmount,    \* bound: amount of a record
  MaxWrites,    \* bound: writes of all records
  MaxVersion,   \* bound: writes of a record
  MaxProject    \* bound: writes of the project

Ids == Bills \cup Payments \cup Expenses \cup Procurements

ASSUME FinanceAssumption ==
  /\ IsFiniteSet(Ids) /\ MaxAmount \in Nat /\ MaxVersion \in Nat
  /\ Submitted \subseteq {"draft", "pending"}
  /\ Bills \cap (Payments \cup Expenses \cup Procurements) = {}
  /\ Payments \cap (Expenses \cup Procurements) = {}
  /\ Expenses \cap Procurements = {}

VARIABLES
  record,   \* BILL#, PAYMENT#, EXPENSE# and SUBCONTRACTOR# items
  claimed,  \* UNIQUE# items of invoices and of transfers
  total,    \* SPENDING#project, SUMMARY#EXPENSES and SUMMARY#APPROVALS
  project,  \* the project's item
  job       \* what each invocation does

vars == << record, claimed, total, project, job >>

-----------------------------------------------------------------------------
Statuses == {"none", "draft", "pending", "approved", "rejected", "reversed"}

\* amount is a bill's netPayable; paid its paidAmount, zero when absent
Records == [status: Statuses, version: Nat, amount: Nat, paid: Int,
            bill: SUBSET Bills, reference: SUBSET References]
NoRecord == [status |-> "none", version |-> 0, amount |-> 0, paid |-> 0,
             bill |-> {}, reference |-> {}]

Summaries == {"spending", "expenses", "pending"}
Unique(r, f) == << IF r \in Bills THEN "bill" ELSE "payment", f >>

Idle == [op |-> "idle"]
Do(i, j) == job' = [job EXCEPT ![i] = j]

\* contribution and pending: what a record adds to a total
Part(k, r, x) ==
  CASE k = "spending" /\ r \in Payments \cup Expenses /\ x.status = "approved" -> x.amount
    [] k = "expenses" /\ r \in Expenses /\ x.status = "approved" -> x.amount
    [] k = "pending" /\ x.status = "pending" -> 1
    [] OTHER -> 0

Writes == Cardinality({w \in Ids \X (1..MaxVersion) : w[2] <= record[w[1]].version})

\* A reversal or a rejection may touch an archived project
Exempt(y) == y.status \in {"rejected", "reversed"}

\* The transaction a request prepares: r becomes y, and the bills in pays have
\* delta added to what is paid of them, on the condition that it was prior.
\* Of the references the project and its version are part of the condition; a
\* linked bill is as well, but an approved bill's does not change.
Prepare(i, r, y, pays, delta) ==
  /\ Exempt(y) \/ project.status = "active"
  /\ y.status # "reversed" => \A b \in y.bill : record[b].status = "approved"
  /\ Do(i, [op |-> "commit", id |-> r, before |-> record[r], after |-> y,
            pays |-> pays, delta |-> delta, seen |-> project.version,
            prior |-> [b \in Bills |-> IF b \in pays THEN record[b].paid ELSE 0]])

-----------------------------------------------------------------------------
(* Submission: POST bills, payments, expenses and subcontractors.           *)

StartCreate(i, r, x) ==
  /\ job[i] = Idle /\ record[r] = NoRecord
  /\ x.status \in IF r \in Procurements THEN {"pending"} ELSE {"draft", "pending"}
  /\ r \in Payments \/ x.bill = {}
  /\ IF r \in Bills THEN x.reference # {}
                    ELSE r \in Payments \/ x.reference = {}
  /\ Prepare(i, r, x, {}, 0)
  /\ UNCHANGED << record, claimed, total, project >>

-----------------------------------------------------------------------------
(* Editing and review: PUT {amount}, PUT {status} or both.                  *)

\* validate_transition; a status may also be sent again, or none
Transition == { <<"draft", "pending">>, <<"pending", "approved">>,
                <<"pending", "rejected">>, <<"rejected", "pending">> }
              \cup {<< s, s >> : s \in Statuses \ {"none"}}

EditableSlip(r, a) ==
  record[r].status \in {"approved", "reversed"} => a = record[r].amount

\* "Approved records are immutable"; a bill's PUT always sets netPayable
Editable(r, a) ==
  record[r].status \in {"approved", "reversed"} =>
    r \notin Bills /\ a = record[r].amount

StartUpdate(i, r, a, s) ==
  /\ job[i] = Idle /\ record[r].version \in 1..MaxVersion-1
  /\ << record[r].status, s >> \in Transition
  /\ Editable(r, a)
  /\ r \in Payments =>
       /\ a = record[r].amount \/ s = record[r].status
       /\ record[r].bill # {} /\ s = "approved" => s = record[r].status
  /\ record[r].paid <= a \/ r \notin Bills
  /\ s = "reversed" => project.status = "active"
  /\ Prepare(i, r, [record[r] EXCEPT !.status = s, !.amount = a, !.version = @ + 1],
             {}, 0)
  /\ UNCHANGED << record, claimed, total, project >>

\* approve_linked_payment
StartApprove(i, r) ==
  /\ job[i] = Idle /\ record[r].version \in 1..MaxVersion-1
  /\ r \in Payments /\ record[r].status = "pending" /\ record[r].bill # {}
  /\ \A b \in record[r].bill :
       /\ record[b].status = "approved" /\ record[b].paid <= record[b].amount
       /\ record[r].amount <= record[b].amount
  /\ Prepare(i, r, [record[r] EXCEPT !.status = "approved", !.version = @ + 1],
             record[r].bill, record[r].amount)
  /\ UNCHANGED << record, claimed, total, project >>

\* reverse_financial and reverse_request; a reversal sent again is answered
\* from the record
StartReverse(i, r) ==
  /\ job[i] = Idle /\ record[r].version \in 1..MaxVersion-1
  /\ r \notin Bills /\ record[r].status = "approved"
  /\ \A b \in record[r].bill : record[b].paid >= record[r].amount
  /\ Prepare(i, r, [record[r] EXCEPT !.status = "reversed", !.version = @ + 1],
             record[r].bill, 0 - record[r].amount)
  /\ UNCHANGED << record, claimed, total, project >>

-----------------------------------------------------------------------------
(* storage.transact: the transaction's conditions and writes.               *)

CurrentSlip(j) == record[j.id].version > 0 \/ j.before.version = 0
Current(j) == record[j.id].version = j.before.version

StandsSlip(j) == project.version >= j.seen
Stands(j) == project.version = j.seen

UnclaimedSlip(j) == TRUE
Unclaimed(j) == j.before.version = 0 =>
  \A f \in j.after.reference : Unique(j.id, f) \notin claimed

\* status, limit and prior value of the bill that is paid
Unpaid(j) == \A b \in j.pays : record[b].paid = j.prior[b] /\
  (j.delta >= 0 => /\ record[b].status = "approved"
                   /\ record[b].paid <= record[b].amount - j.delta)

PostedSlip(j, k) == total[k] + Part(k, j.id, j.before) - Part(k, j.id, j.after)
Posted(j, k) == total[k] - Part(k, j.id, j.before) + Part(k, j.id, j.after)

Commit(i) ==
  /\ job[i].op = "commit"
  /\ LET j == job[i]
     IN  /\ Current(j) /\ Stands(j) /\ Unclaimed(j) /\ Unpaid(j)
         /\ record' = [r \in Ids |->
              IF r = j.id THEN j.after
              ELSE IF r \in j.pays THEN [record[r] EXCEPT !.paid = @ + j.delta]
              ELSE record[r]]
         /\ claimed' = claimed \cup {Unique(j.id, f) : f \in j.after.reference}
         /\ total' = [k \in Summaries |-> Posted(j, k)]
  /\ Do(i, Idle)
  /\ UNCHANGED project

-----------------------------------------------------------------------------
\* PUT project: archived, or restored.  Its condition names the version it
\* read, so the read and the write are one step.
PutProject(s) ==
  /\ project.version < MaxProject
  /\ project' = [status |-> s, version |-> project.version + 1]
  /\ UNCHANGED << record, claimed, total, job >>

\* A refused request or a crash: nothing is written
Abandon(i) ==
  /\ job[i] # Idle
  /\ Do(i, Idle)
  /\ UNCHANGED << record, claimed, total, project >>

Init ==
  /\ record = [r \in Ids |-> NoRecord]
  /\ claimed = {}
  /\ total = [k \in Summaries |-> 0]
  /\ project = [status |-> "active", version |-> 1]
  /\ job = [i \in Invocations |-> Idle]

\* What a client may submit
New == [status: Submitted, version: {1}, amount: 1..MaxAmount,
        paid: {0}, bill: {{}} \cup {{b} : b \in Bills},
        reference: {{}} \cup {{f} : f \in References}]

Request(i) ==
  \/ /\ job[i] = Idle /\ Writes < MaxWrites
     /\ \/ \E r \in Ids, x \in New : StartCreate(i, r, x)
        \/ \E r \in Ids, a \in 1..MaxAmount, s \in Statuses : StartUpdate(i, r, a, s)
        \/ \E r \in Ids : StartApprove(i, r) \/ StartReverse(i, r)
  \/ Commit(i) \/ Abandon(i)

Next ==
  \/ \E i \in Invocations : Request(i)
  \/ \E s \in {"active", "archived"} : PutProject(s)

Spec == Init /\ [][Next]_vars
-----------------------------------------------------------------------------
(* Properties.                                                             *)

Jobs == {Idle}
  \cup [op: {"commit"}, id: Ids, before: Records, after: Records, seen: Nat,
        pays: SUBSET Bills, delta: Int, prior: [Bills -> Int]]

\* Records, totals, the project and the transactions in preparation have
\* their types; what is paid of a bill is never negative.
TypeOK ==
  /\ record \in [Ids -> Records]
  /\ \A b \in Bills : record[b].paid >= 0
  /\ claimed \subseteq {"bill", "payment"} \X References
  /\ total \in [Summaries -> Nat]
  /\ project \in [status: {"active", "archived"}, version: Nat]
  /\ job \in [Invocations -> Jobs]

\* What approved payments have paid of a bill
Paid(b, x) == IF b \in x.bill /\ x.status = "approved" THEN x.amount ELSE 0
PaidOf(b) == [r \in Payments |-> Paid(b, record[r])]

\* However approvals, reversals and retries of several payments of a bill are
\* interleaved, paidAmount is the sum of its approved payments and does not
\* exceed the bill.
BillCovered == \A b \in Bills :
  /\ IsTotal(Payments, PaidOf(b), record[b].paid)
  /\ record[b].paid <= record[b].amount

\* What the records of S add to a total
PartOf(k, S) == [r \in S |-> Part(k, r, record[r])]

\* The spending, the expenses and the number of pending approvals, kept by
\* deltas of what each request had read, are what the records add up to.
TotalsPosted ==
  /\ LET S == Payments \cup Expenses
     IN  IsTotal(S, PartOf("spending", S), total["spending"])
  /\ IsTotal(Expenses, PartOf("expenses", Expenses), total["expenses"])
  /\ total["pending"] = Cardinality({r \in Ids : record[r].status = "pending"})

\* Two bills, or two payments, never bear the same number, though each was
\* submitted before the other was stored.
UniqueReference == \A r, s \in Ids :
  /\ r # s
  /\ {r, s} \subseteq Bills \/ {r, s} \subseteq Payments
  => record[r].reference \cap record[s].reference = {}

\* "Approved records are immutable": an edit or a review that read a record
\* before its approval or its reversal does not commit after it.
ApprovedFixed ==
  [][\A r \in Ids :
       /\ record[r].status = "approved" => record'[r].status \in {"approved", "reversed"}
       /\ record[r].status = "reversed" => record'[r].status = "reversed"
       /\ record[r].status \in {"approved", "reversed"} =>
            record'[r].amount = record[r].amount]_vars

\* In an archived project nothing is submitted or approved and nothing is
\* spent, also by a request that was validated before the project was
\* archived; records are only rejected or reversed.
ArchivedFrozen ==
  [][project.status = "archived" =>
       /\ total["spending"]' <= total["spending"]
       /\ \A r \in Ids : record'[r].status \in {record[r].status, "rejected", "reversed"}]_vars
-----------------------------------------------------------------------------
(* The inductive invariant, of the prepared transactions in particular.    *)

\* A transaction of a version that is still stored was prepared from what is
\* stored
StillCurrent(j) ==
  /\ j.before.version <= record[j.id].version
  /\ j.before.version = record[j.id].version => j.before = record[j.id]
  /\ j.after.version = j.before.version + 1

\* What it changes of its record
Lawful(j) ==
  /\ j.before.status = "approved" => j.after.status \in {"approved", "reversed"}
  /\ j.before.status = "reversed" => j.after.status = "reversed"
  /\ j.before.status \in {"approved", "reversed"} => j.after.amount = j.before.amount
  /\ j.before.version > 0 => j.after.reference = j.before.reference
  /\ j.id \in Bills => /\ j.before.status # "approved"
                       /\ j.after.paid = j.before.paid
                       /\ j.after.paid <= j.after.amount

\* It pays what its record's change means for the bills, which are approved
Balanced(j) ==
  /\ \A b \in j.after.bill : record[b].status = "approved"
  /\ j.pays \subseteq j.after.bill
  /\ j.id \notin Payments => j.pays = {} /\ j.after.bill = {}
  /\ j.id \in Payments => \A b \in Bills :
       Paid(b, j.after) - Paid(b, j.before) = IF b \in j.pays THEN j.delta ELSE 0

\* It knows of the archiving of the project, unless the project changed
Permitted(j) ==
  /\ j.seen <= project.version
  /\ j.seen = project.version => Exempt(j.after) \/ project.status = "active"

Prepared == \A i \in Invocations : job[i] # Idle =>
  StillCurrent(job[i]) /\ Lawful(job[i]) /\ Balanced(job[i]) /\ Permitted(job[i])

\* A record without a version is not there; bills that payments link to are
\* approved; numbers in use are claimed
Stored == \A r \in Ids :
  /\ record[r].version = 0 => record[r] = NoRecord
  /\ r \notin Payments => record[r].bill = {}
  /\ \A b \in record[r].bill : record[b].status = "approved"
  /\ \A f \in record[r].reference : Unique(r, f) \in claimed

IInv == TypeOK /\ BillCovered /\ TotalsPosted /\ UniqueReference /\ Stored /\ Prepared
=============================================================================
