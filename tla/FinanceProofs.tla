---------------------------- MODULE FinanceProofs ----------------------------
(* The inductive invariant of Finance and its safety properties, for any     *)
(* records, references, invocations and amounts.                             *)
EXTENDS Finance, TotalsProofs

\* The transaction that Prepare leaves with an invocation.
Prepares(r, y, pays, delta) ==
  [op |-> "commit", id |-> r, before |-> record[r], after |-> y,
   pays |-> pays, delta |-> delta, seen |-> project.version,
   prior |-> [b \in Bills |-> IF b \in pays THEN record[b].paid ELSE 0]]

\* What holds of a transaction that is prepared.
PreparedOK(j) == StillCurrent(j) /\ Lawful(j) /\ Balanced(j) /\ Permitted(j)

\* An invocation that is not idle has a transaction.
LEMMA JobType ==
  ASSUME TypeOK, NEW i \in Invocations, job[i] # Idle
  PROVE  /\ job[i].op = "commit" /\ job[i].id \in Ids
         /\ job[i].before \in Records /\ job[i].after \in Records
         /\ job[i].pays \subseteq Bills /\ job[i].delta \in Int
         /\ job[i].seen \in Nat /\ job[i].prior \in [Bills -> Int]
<1>1. job[i] \in Jobs
  BY DEF TypeOK
<1> QED
  BY <1>1 DEF Jobs

LEMMA InitIInv == Init => IInv
<1> SUFFICES ASSUME Init PROVE IInv
  OBVIOUS
<1> USE DEF Init
<1>1. NoRecord \in Records
  BY DEF NoRecord, Records, Statuses
<1>2. TypeOK
  <2>1. record \in [Ids -> Records] /\ \A b \in Bills : record[b].paid >= 0
    <3>1. \A b \in Bills : b \in Ids
      BY DEF Ids
    <3> QED
      BY <1>1, <3>1 DEF NoRecord
  <2>2. total \in [Summaries -> Nat] /\ job \in [Invocations -> Jobs]
    BY DEF Jobs
  <2> QED
    BY <2>1, <2>2 DEF TypeOK
<1>3. \A r \in Ids : record[r] = NoRecord
  OBVIOUS
<1>4. BillCovered
  <2> SUFFICES ASSUME NEW b \in Bills
               PROVE  IsTotal(Payments, PaidOf(b), 0) /\ record[b].paid = 0 /\ record[b].amount = 0
    BY DEF BillCovered
  <2>1. \A r \in Payments : PaidOf(b)[r] = 0
    BY <1>3 DEF PaidOf, Paid, NoRecord, Ids
  <2>2. IsFiniteSet(Payments)
    BY FinanceAssumption, FS_Subset DEF Ids
  <2> QED
    BY <2>1, <2>2, <1>3, TotalZero DEF NoRecord, Ids
<1>5. TotalsPosted
  <2>1. \A k, S : S \subseteq Ids => \A r \in S : PartOf(k, S)[r] = 0
    BY <1>3 DEF PartOf, Part, NoRecord
  <2>2. IsFiniteSet(Payments \cup Expenses) /\ IsFiniteSet(Expenses)
    BY FinanceAssumption, FS_Subset DEF Ids
  <2>3. {r \in Ids : record[r].status = "pending"} = {}
    BY <1>3 DEF NoRecord
  <2>4. IsTotal(Payments \cup Expenses, PartOf("spending", Payments \cup Expenses), 0)
    BY <2>1, <2>2, TotalZero DEF Ids
  <2>5. IsTotal(Expenses, PartOf("expenses", Expenses), 0)
    BY <2>1, <2>2, TotalZero DEF Ids
  <2> QED
    BY <2>3, <2>4, <2>5, FS_EmptySet DEF TotalsPosted, Summaries
<1>6. UniqueReference /\ Stored /\ Prepared
  BY <1>3 DEF UniqueReference, Stored, Prepared, NoRecord
<1> QED
  BY <1>2, <1>4, <1>5, <1>6 DEF IInv

\* Nothing but the jobs is disturbed while records, totals and the project stay.
LEMMA StillStored ==
  ASSUME IInv, UNCHANGED << record, claimed, total, project >>
  PROVE  /\ BillCovered' /\ TotalsPosted' /\ UniqueReference' /\ Stored'
         /\ \A j : PreparedOK(j) => PreparedOK(j)'
<1>1. BillCovered'
  <2>1. \A b : PaidOf(b)' = PaidOf(b)
    BY DEF PaidOf
  <2> QED
    BY <2>1 DEF IInv, BillCovered
<1>2. TotalsPosted'
  <2>1. \A k, S : PartOf(k, S)' = PartOf(k, S)
    BY DEF PartOf
  <2> QED
    BY <2>1 DEF IInv, TotalsPosted
<1>3. UniqueReference' /\ Stored'
  BY DEF IInv, UniqueReference, Stored
<1>4. \A j : PreparedOK(j) => PreparedOK(j)'
  BY DEF PreparedOK, StillCurrent, Lawful, Balanced, Permitted
<1> QED
  BY <1>1, <1>2, <1>3, <1>4

\* A prepared transaction j that an invocation holds after the step.
LEMMA HoldsAfter ==
  ASSUME NEW k, NEW j, job'[k] = j, PreparedOK(j)'
  PROVE  PreparedOK(job[k])'
BY DEF PreparedOK, StillCurrent, Lawful, Balanced, Permitted, Exempt, Paid

\* The transaction that an invocation holds is prepared.
LEMMA HoldsNow ==
  ASSUME Prepared, NEW k \in Invocations, NEW j, j = job[k], j # Idle
  PROVE  PreparedOK(j)
BY DEF Prepared, PreparedOK

\* A transaction that is prepared from the state keeps the invariant.
LEMMA PrepareStep ==
  ASSUME IInv, NEW i \in Invocations, NEW r \in Ids, NEW y \in Records,
         NEW pays \in SUBSET Bills, NEW delta \in Int,
         Prepare(i, r, y, pays, delta),
         UNCHANGED << record, claimed, total, project >>,
         PreparedOK(Prepares(r, y, pays, delta))
  PROVE  IInv'
<1> DEFINE j == Prepares(r, y, pays, delta)
<1>1. job' = [job EXCEPT ![i] = j]
  BY DEF Prepare, Do, Prepares
<1>2. j \in Jobs
  <2>1. /\ record[r] \in Records /\ project.version \in Nat
        /\ \A b \in Bills : record[b].paid \in Int
    BY DEF IInv, TypeOK, Ids, Records
  <2> QED
    BY <2>1 DEF Prepares, Jobs
<1> HIDE DEF j
<1>3. TypeOK'
  BY <1>1, <1>2 DEF IInv, TypeOK
<1>4. Prepared'
  <2> SUFFICES ASSUME NEW k \in Invocations, job'[k] # Idle
               PROVE  PreparedOK(job[k])'
    BY DEF Prepared, PreparedOK
  <2>1. CASE k = i
    <3>1. job'[k] = j
      BY <1>1, <2>1 DEF IInv, TypeOK
    <3> QED
      BY <3>1, StillStored, HoldsAfter DEF j
  <2>2. CASE k # i
    <3>1. PICK q : q = job[k]
      OBVIOUS
    <3>2. job'[k] = q
      BY <1>1, <2>2, <3>1 DEF IInv, TypeOK
    <3>3. PreparedOK(q)
      BY <3>1, <3>2, HoldsNow DEF IInv
    <3> QED
      BY <3>2, <3>3, StillStored, HoldsAfter
  <2> QED
    BY <2>1, <2>2
<1> QED
  BY <1>3, <1>4, StillStored DEF IInv

LEMMA AbandonStep ==
  ASSUME IInv, NEW i \in Invocations, Abandon(i)
  PROVE  IInv'
<1>1. job' = [job EXCEPT ![i] = Idle] /\ UNCHANGED << record, claimed, total, project >>
  BY DEF Abandon, Do
<1>2. TypeOK'
  BY <1>1 DEF IInv, TypeOK, Jobs
<1>3. Prepared'
  <2> SUFFICES ASSUME NEW k \in Invocations, job'[k] # Idle
               PROVE  PreparedOK(job[k])'
    BY DEF Prepared, PreparedOK
  <2>1. PICK q : q = job[k]
    OBVIOUS
  <2>2. job'[k] = q
    BY <1>1, <2>1 DEF IInv, TypeOK
  <2>3. PreparedOK(q)
    BY <2>1, <2>2, HoldsNow DEF IInv
  <2> QED
    BY <1>1, <2>2, <2>3, StillStored, HoldsAfter
<1> QED
  BY <1>1, <1>2, <1>3, StillStored DEF IInv

LEMMA PutProjectStep ==
  ASSUME IInv, NEW s \in {"active", "archived"}, PutProject(s)
  PROVE  IInv'
<1>1. /\ project.version \in Nat /\ project'.version = project.version + 1
      /\ project' \in [status: {"active", "archived"}, version: Nat]
      /\ UNCHANGED << record, claimed, total, job >>
  BY DEF IInv, TypeOK, PutProject
<1>2. TypeOK'
  BY <1>1 DEF IInv, TypeOK
<1>3. BillCovered'
  <2>1. \A b : PaidOf(b)' = PaidOf(b)
    BY <1>1 DEF PaidOf
  <2> QED
    BY <1>1, <2>1 DEF IInv, BillCovered
<1>4. TotalsPosted'
  <2>1. \A k, S : PartOf(k, S)' = PartOf(k, S)
    BY <1>1 DEF PartOf
  <2> QED
    BY <1>1, <2>1 DEF IInv, TotalsPosted
<1>5. UniqueReference' /\ Stored'
  BY <1>1 DEF IInv, UniqueReference, Stored
<1>6. Prepared'
  <2> SUFFICES ASSUME NEW k \in Invocations, job'[k] # Idle
               PROVE  PreparedOK(job[k])'
    BY DEF Prepared, PreparedOK
  <2>1. PICK q : q = job[k]
    OBVIOUS
  <2>2. job'[k] = q /\ q # Idle
    BY <1>1, <2>1
  <2>3. PreparedOK(q) /\ q.seen \in Nat
    BY <2>1, <2>2, HoldsNow, JobType DEF IInv
  <2>4. q.seen # project'.version
    BY <1>1, <2>3 DEF PreparedOK, Permitted
  <2>5. q.seen <= project'.version
    BY <1>1, <2>3 DEF PreparedOK, Permitted
  <2>6. PreparedOK(q)'
    BY <1>1, <2>3, <2>4, <2>5 DEF PreparedOK, StillCurrent, Lawful, Balanced, Permitted
  <2> QED
    BY <2>2, <2>6, HoldsAfter
<1> QED
  BY <1>2, <1>3, <1>4, <1>5, <1>6 DEF IInv

\* A prepared transaction is current and permitted.
LEMMA PrepareCurrent ==
  ASSUME IInv, NEW i \in Invocations, NEW r \in Ids, NEW y \in Records,
         NEW pays, NEW delta, Prepare(i, r, y, pays, delta),
         y.version = record[r].version + 1
  PROVE  StillCurrent(Prepares(r, y, pays, delta)) /\ Permitted(Prepares(r, y, pays, delta))
<1>1. record[r].version \in Nat /\ project.version \in Nat
  BY DEF IInv, TypeOK, Records
<1> QED
  BY <1>1 DEF StillCurrent, Permitted, Prepares, Prepare

LEMMA StartCreateStep ==
  ASSUME IInv, NEW i \in Invocations, NEW r \in Ids, NEW x \in New, StartCreate(i, r, x)
  PROVE  IInv'
<1>1. /\ record[r] = NoRecord /\ Prepare(i, r, x, {}, 0)
      /\ x.status \in {"draft", "pending"}
      /\ r \notin Payments => x.bill = {}
      /\ UNCHANGED << record, claimed, total, project >>
  BY DEF StartCreate
<1>0. r \in Bills => r \notin Payments
  BY FinanceAssumption
<1>2. x \in Records /\ x.version = 1 /\ x.paid = 0 /\ x.amount \in Nat
  <2> DEFINE B == {{}} \cup {{b} : b \in Bills}
             F == {{}} \cup {{f} : f \in References}
  <2>1. B \subseteq SUBSET Bills /\ F \subseteq SUBSET References
    OBVIOUS
  <2>2. Submitted \subseteq Statuses /\ 1..MaxAmount \subseteq Nat
    BY FinanceAssumption DEF Statuses
  <2>3. x \in [status: Submitted, version: {1}, amount: 1..MaxAmount,
               paid: {0}, bill: B, reference: F]
    BY DEF New
  <2> HIDE DEF B, F
  <2> QED
    BY <2>1, <2>2, <2>3 DEF Records
<1>3. Lawful(Prepares(r, x, {}, 0))
  BY <1>1, <1>2 DEF Lawful, Prepares, NoRecord
<1>4. \A b : Paid(b, x) = 0 /\ Paid(b, NoRecord) = 0
  BY <1>1 DEF Paid, NoRecord
<1>5. Balanced(Prepares(r, x, {}, 0))
  <2>1. \A b \in x.bill : record[b].status = "approved"
    BY <1>1 DEF Prepare
  <2> QED
    BY <1>1, <1>4, <2>1 DEF Balanced, Prepares
<1>6. PreparedOK(Prepares(r, x, {}, 0))
  BY <1>1, <1>2, <1>3, <1>5, PrepareCurrent DEF PreparedOK, NoRecord
<1> QED
  BY <1>1, <1>2, <1>6, PrepareStep

\* A record's bills are approved and are bills of payments.
LEMMA Linked ==
  ASSUME IInv, NEW r \in Ids
  PROVE  /\ record[r] \in Records
         /\ r \notin Payments => record[r].bill = {}
         /\ \A b \in record[r].bill : record[b].status = "approved"
BY DEF IInv, TypeOK, Stored, Records

\* The record of an update, an approval or a reversal: r with another status
\* and amount.
Written(r, s, a) == [record[r] EXCEPT !.status = s, !.amount = a, !.version = @ + 1]

LEMMA WrittenFields ==
  ASSUME IInv, NEW r \in Ids, NEW s \in Statuses, NEW a \in Nat
  PROVE  /\ Written(r, s, a) \in Records
         /\ Written(r, s, a).status = s /\ Written(r, s, a).amount = a
         /\ Written(r, s, a).version = record[r].version + 1
         /\ Written(r, s, a).paid = record[r].paid
         /\ Written(r, s, a).bill = record[r].bill
         /\ Written(r, s, a).reference = record[r].reference
<1>1. record[r] \in Records
  BY Linked
<1>2. \A x \in Records : [x EXCEPT !.status = s] \in Records
  BY DEF Records
<1>3. \A x \in Records : [x EXCEPT !.amount = a] \in Records
  BY DEF Records
<1>4. \A x \in Records : [x EXCEPT !.version = @ + 1] \in Records
  BY DEF Records
<1>5. Written(r, s, a) \in Records
  BY <1>1, <1>2, <1>3, <1>4 DEF Written
<1>6. \A f \in {"status", "version", "amount", "paid", "bill", "reference"} :
        f \in DOMAIN record[r]
  BY <1>1 DEF Records
<1> QED
  BY <1>5, <1>6 DEF Written

\* The record of an approval or a reversal: r with another status.
Marked(r, s) == [record[r] EXCEPT !.status = s, !.version = @ + 1]

LEMMA MarkedFields ==
  ASSUME IInv, NEW r \in Ids, NEW s \in Statuses
  PROVE  /\ Marked(r, s) \in Records
         /\ Marked(r, s).status = s /\ Marked(r, s).amount = record[r].amount
         /\ Marked(r, s).version = record[r].version + 1
         /\ Marked(r, s).bill = record[r].bill
         /\ Marked(r, s).reference = record[r].reference
<1>1. record[r] \in Records
  BY Linked
<1>2. \A x \in Records : [x EXCEPT !.status = s] \in Records
  BY DEF Records
<1>3. \A x \in Records : [x EXCEPT !.version = @ + 1] \in Records
  BY DEF Records
<1>4. Marked(r, s) \in Records
  BY <1>1, <1>2, <1>3 DEF Marked
<1>5. \A f \in {"status", "version", "amount", "paid", "bill", "reference"} :
        f \in DOMAIN record[r]
  BY <1>1 DEF Records
<1> QED
  BY <1>4, <1>5 DEF Marked

LEMMA StartUpdateStep ==
  ASSUME IInv, NEW i \in Invocations, NEW r \in Ids, NEW a \in 1..MaxAmount,
         NEW s \in Statuses, StartUpdate(i, r, a, s)
  PROVE  IInv'
<1> DEFINE y == Written(r, s, a)
           old == record[r]
<1>1. /\ << old.status, s >> \in Transition
      /\ old.status \in {"approved", "reversed"} => r \notin Bills /\ a = old.amount
      /\ r \in Payments /\ old.bill # {} /\ s = "approved" => s = old.status
      /\ r \in Bills => old.paid <= a
      /\ Prepare(i, r, y, {}, 0)
      /\ UNCHANGED << record, claimed, total, project >>
  BY DEF StartUpdate, Editable, Written
<1>2. a \in Nat /\ (r \in Bills => r \notin Payments)
  BY FinanceAssumption
<1>3. /\ s = "approved" => old.status \in {"pending", "approved"}
      /\ old.status = "approved" => s = "approved"
      /\ old.status = "reversed" => s = "reversed"
  BY <1>1 DEF Transition, Statuses
<1>4. /\ y \in Records /\ y.status = s /\ y.amount = a /\ y.version = old.version + 1
      /\ y.paid = old.paid /\ y.bill = old.bill /\ y.reference = old.reference
  BY <1>2, WrittenFields
<1> HIDE DEF y
<1>5. Lawful(Prepares(r, y, {}, 0))
  BY <1>1, <1>2, <1>3, <1>4 DEF Lawful, Prepares
<1>6. r \in Payments => \A b \in Bills : Paid(b, y) - Paid(b, old) = 0
  <2>1. old.amount \in Nat
    BY Linked DEF Records
  <2> QED
    BY <1>1, <1>2, <1>3, <1>4, <2>1 DEF Paid
<1>7. Balanced(Prepares(r, y, {}, 0))
  BY <1>4, <1>6, Linked DEF Balanced, Prepares
<1>8. PreparedOK(Prepares(r, y, {}, 0))
  BY <1>1, <1>4, <1>5, <1>7, PrepareCurrent DEF PreparedOK
<1> QED
  BY <1>1, <1>4, <1>8, PrepareStep

LEMMA StartApproveStep ==
  ASSUME IInv, NEW i \in Invocations, NEW r \in Ids, StartApprove(i, r)
  PROVE  IInv'
<1> DEFINE old == record[r]
           y == Marked(r, "approved")
<1>1. /\ r \in Payments /\ old.status = "pending"
      /\ UNCHANGED << record, claimed, total, project >>
  BY DEF StartApprove
<1>2. old \in Records /\ old.amount \in Nat /\ old.bill \subseteq Bills
  BY Linked DEF Records
<1>3. Prepare(i, r, y, old.bill, old.amount)
  BY DEF StartApprove, Marked
<1>4. /\ y \in Records /\ y.status = "approved" /\ y.amount = old.amount
      /\ y.version = old.version + 1 /\ y.bill = old.bill
      /\ y.reference = old.reference
  BY <1>2, MarkedFields DEF Statuses
<1> HIDE DEF y
<1>5. r \notin Bills
  BY <1>1, FinanceAssumption
<1>6. Lawful(Prepares(r, y, old.bill, old.amount))
  BY <1>1, <1>4, <1>5 DEF Lawful, Prepares
<1>7. \A b : Paid(b, y) - Paid(b, old) = IF b \in old.bill THEN old.amount ELSE 0
  BY <1>1, <1>2, <1>4 DEF Paid
<1>8. Balanced(Prepares(r, y, old.bill, old.amount))
  BY <1>1, <1>4, <1>7, Linked DEF Balanced, Prepares
<1>9. PreparedOK(Prepares(r, y, old.bill, old.amount))
  BY <1>3, <1>4, <1>6, <1>8, PrepareCurrent DEF PreparedOK
<1> QED
  BY <1>1, <1>2, <1>3, <1>4, <1>9, PrepareStep

LEMMA StartReverseStep ==
  ASSUME IInv, NEW i \in Invocations, NEW r \in Ids, StartReverse(i, r)
  PROVE  IInv'
<1> DEFINE old == record[r]
           y == Marked(r, "reversed")
<1>1. /\ r \notin Bills /\ old.status = "approved"
      /\ UNCHANGED << record, claimed, total, project >>
  BY DEF StartReverse
<1>2. old \in Records /\ old.amount \in Nat /\ old.bill \subseteq Bills
  BY Linked DEF Records
<1>3. Prepare(i, r, y, old.bill, 0 - old.amount) /\ 0 - old.amount \in Int
  BY <1>2 DEF StartReverse, Marked
<1>4. /\ y \in Records /\ y.status = "reversed" /\ y.amount = old.amount
      /\ y.version = old.version + 1 /\ y.bill = old.bill
      /\ y.reference = old.reference
  BY <1>2, MarkedFields DEF Statuses
<1> HIDE DEF y
<1>5. Lawful(Prepares(r, y, old.bill, 0 - old.amount))
  BY <1>1, <1>4 DEF Lawful, Prepares
<1>6. \A b : Paid(b, y) - Paid(b, old) = IF b \in old.bill THEN 0 - old.amount ELSE 0
  BY <1>1, <1>2, <1>4 DEF Paid
<1>7. Balanced(Prepares(r, y, old.bill, 0 - old.amount))
  BY <1>1, <1>4, <1>6, Linked DEF Balanced, Prepares
<1>8. PreparedOK(Prepares(r, y, old.bill, 0 - old.amount))
  BY <1>3, <1>4, <1>5, <1>7, PrepareCurrent DEF PreparedOK
<1> QED
  BY <1>1, <1>2, <1>3, <1>4, <1>8, PrepareStep

-----------------------------------------------------------------------------
(* The commit of a prepared transaction j.                                  *)

JobFields(j) ==
  /\ j.id \in Ids /\ j.before \in Records /\ j.after \in Records
  /\ j.pays \subseteq Bills /\ j.delta \in Int /\ j.seen \in Nat

Committed(j) ==
  /\ Current(j) /\ Stands(j) /\ Unclaimed(j) /\ Unpaid(j)
  /\ record' = [r \in Ids |->
       IF r = j.id THEN j.after
       ELSE IF r \in j.pays THEN [record[r] EXCEPT !.paid = @ + j.delta]
       ELSE record[r]]
  /\ claimed' = claimed \cup {Unique(j.id, f) : f \in j.after.reference}
  /\ total' = [k \in Summaries |-> Posted(j, k)]
  /\ project' = project

LEMMA CommitFacts ==
  ASSUME IInv, NEW i \in Invocations, NEW j, j = job[i], Commit(i)
  PROVE  /\ Committed(j) /\ job' = [job EXCEPT ![i] = Idle]
         /\ JobFields(j) /\ PreparedOK(j)
<1>1. j # Idle
  BY DEF Commit, Idle
<1>2. JobFields(j) /\ PreparedOK(j)
  BY <1>1, JobType, HoldsNow DEF IInv, JobFields
<1>3. Committed(j) /\ job' = [job EXCEPT ![i] = Idle]
  BY Zenon DEF Commit, Committed, Do
<1> QED
  BY <1>2, <1>3

\* What a commit does to each record.
LEMMA RecordsAfter ==
  ASSUME IInv, NEW j, JobFields(j), PreparedOK(j), Committed(j), NEW r \in Ids
  PROVE  /\ record[j.id] = j.before /\ j.id \notin j.pays
         /\ r = j.id => record'[r] = j.after
         /\ r # j.id /\ r \notin j.pays => record'[r] = record[r]
         /\ r \in j.pays => /\ record'[r].paid = record[r].paid + j.delta
                            /\ record'[r].status = record[r].status
                            /\ record'[r].version = record[r].version
                            /\ record'[r].amount = record[r].amount
                            /\ record'[r].bill = record[r].bill
                            /\ record'[r].reference = record[r].reference
                            /\ record[r].status = "approved"
         /\ record'[r] \in Records
<1>1. record[j.id] = j.before
  BY DEF Committed, Current, PreparedOK, StillCurrent
<1>2. j.id \notin j.pays
  BY FinanceAssumption DEF PreparedOK, Balanced, JobFields
<1>3. record'[r] = IF r = j.id THEN j.after
                   ELSE IF r \in j.pays THEN [record[r] EXCEPT !.paid = @ + j.delta]
                   ELSE record[r]
  BY DEF Committed
<1>4. record[r] \in Records
  BY Linked
<1>5. \A x \in Records : [x EXCEPT !.paid = @ + j.delta] \in Records
  BY DEF Records, JobFields
<1>6. record'[r] \in Records
  BY <1>3, <1>4, <1>5 DEF JobFields
<1>7. ASSUME r \in j.pays
      PROVE  /\ record'[r].paid = record[r].paid + j.delta
             /\ record'[r].status = record[r].status
             /\ record'[r].version = record[r].version
             /\ record'[r].amount = record[r].amount
             /\ record'[r].bill = record[r].bill
             /\ record'[r].reference = record[r].reference
             /\ record[r].status = "approved"
  <2>1. record'[r] = [record[r] EXCEPT !.paid = @ + j.delta]
    BY <1>2, <1>3, <1>7
  <2>2. \A f \in {"status", "version", "amount", "paid", "bill", "reference"} :
          f \in DOMAIN record[r]
    BY <1>4 DEF Records
  <2>3. record[r].status = "approved"
    BY <1>7 DEF PreparedOK, Balanced
  <2> QED
    BY <2>1, <2>2, <2>3
<1> QED
  BY <1>1, <1>2, <1>3, <1>6, <1>7

\* An approved bill stays approved.
LEMMA BillsStay ==
  ASSUME IInv, NEW j, JobFields(j), PreparedOK(j), Committed(j), NEW b \in Bills,
         record[b].status = "approved"
  PROVE  record'[b].status = "approved"
<1>1. b # j.id
  BY RecordsAfter DEF PreparedOK, Lawful, JobFields
<1> QED
  BY <1>1, RecordsAfter DEF Ids

LEMMA CommitPaid ==
  ASSUME IInv, NEW j, JobFields(j), PreparedOK(j), Committed(j)
  PROVE  BillCovered' /\ \A b \in Bills : record'[b].paid >= 0
<1> SUFFICES ASSUME NEW b \in Bills
             PROVE  /\ IsTotal(Payments, PaidOf(b)', record'[b].paid)
                    /\ record'[b].paid <= record'[b].amount
                    /\ record'[b].paid >= 0
  BY DEF BillCovered
<1> DEFINE v == record[b].paid
           u == record'[b].paid
           f == PaidOf(b)
           h == PaidOf(b)'
           d == IF b \in j.pays THEN j.delta ELSE 0
<1>1. /\ IsTotal(Payments, f, v) /\ v <= record[b].amount /\ v \in Nat
      /\ record[b].amount \in Nat /\ IsFiniteSet(Payments) /\ b \in Ids
  <2>1. IsFiniteSet(Payments) /\ b \in Ids
    BY FinanceAssumption, FS_Subset DEF Ids
  <2> QED
    BY <2>1, Linked DEF IInv, TypeOK, BillCovered, Records
<1>2. u = v + d /\ u \in Int
  <2>1. CASE b = j.id
    BY <1>1, <2>1, RecordsAfter DEF PreparedOK, Lawful, Records
  <2>2. CASE b # j.id
    BY <1>1, <2>2, RecordsAfter DEF Records, JobFields
  <2> QED
    BY <2>1, <2>2
<1>3. u <= record'[b].amount
  <2>1. CASE b = j.id
    BY <1>1, <2>1, RecordsAfter DEF PreparedOK, Lawful
  <2>2. CASE b \in j.pays /\ j.delta >= 0
    <3>1. v <= record[b].amount - j.delta
      BY <2>2 DEF Committed, Unpaid
    <3> QED
      BY <1>1, <1>2, <2>2, <3>1, RecordsAfter DEF JobFields
  <2>3. CASE b \in j.pays /\ ~(j.delta >= 0)
    BY <1>1, <1>2, <2>3, RecordsAfter DEF JobFields
  <2>4. CASE b # j.id /\ b \notin j.pays
    BY <1>1, <2>4, RecordsAfter
  <2> QED
    BY <2>1, <2>2, <2>3, <2>4
<1>4. f \in [Payments -> Nat] /\ h \in [Payments -> Nat]
  BY Linked, RecordsAfter DEF PaidOf, Paid, Records, Ids
<1>5. \A r \in Payments : r # j.id => h[r] = f[r]
  <2>1. \A r \in Payments : r \in Ids /\ r \notin j.pays
    BY FinanceAssumption DEF Ids, JobFields
  <2> QED
    BY <2>1, RecordsAfter DEF PaidOf
<1>6. CASE j.id \in Payments
  <2>1. f[j.id] = Paid(b, j.before) /\ h[j.id] = Paid(b, j.after)
    BY <1>6, RecordsAfter DEF PaidOf, JobFields
  <2>2. h[j.id] - f[j.id] = d
    BY <1>6, <2>1 DEF PreparedOK, Balanced
  <2>3. u = v - f[j.id] + h[j.id]
    BY <1>1, <1>2, <1>4, <1>6, <2>2
  <2>4. IsTotal(Payments, h, u)
    <3> HIDE DEF f, h, u, v
    <3> QED
      BY <1>1, <1>4, <1>5, <1>6, <2>3, TotalUpdate
  <2>5. u \in Nat
    <3> HIDE DEF f, h, u, v
    <3> QED
      BY <1>1, <1>4, <2>4, TotalNat
  <2> QED
    BY <1>3, <2>4, <2>5
<1>7. CASE j.id \notin Payments
  <2>1. j.pays = {}
    BY <1>7 DEF PreparedOK, Balanced
  <2>2. u = v
    BY <1>1, <1>2, <2>1
  <2>3. h = f
    <3> HIDE DEF f, h
    <3> QED
      BY <1>4, <1>5, <1>7
  <2> QED
    BY <1>1, <1>3, <2>2, <2>3
<1> QED
  BY <1>6, <1>7

\* A total over a set of records follows the record that changes.
LEMMA CommitTotal ==
  ASSUME IInv, NEW j, JobFields(j), PreparedOK(j), Committed(j),
         NEW k \in {"spending", "expenses"}, NEW S \in SUBSET Ids,
         S = IF k = "spending" THEN Payments \cup Expenses ELSE Expenses,
         IsTotal(S, PartOf(k, S), total[k])
  PROVE  IsTotal(S, PartOf(k, S)', total'[k]) /\ total'[k] \in Nat
<1> DEFINE f == PartOf(k, S)
           h == PartOf(k, S)'
           v == total[k]
           u == total'[k]
<1>0. IsTotal(S, f, v)
  OBVIOUS
<1>1. v \in Nat /\ IsFiniteSet(S) /\ k \in Summaries
  BY FinanceAssumption, FS_Subset DEF IInv, TypeOK, Summaries
<1>2. f \in [S -> Nat] /\ h \in [S -> Nat]
  BY Linked, RecordsAfter DEF PartOf, Part, Records
<1>3. \A r \in S : r # j.id => h[r] = f[r]
  BY RecordsAfter DEF PartOf, Part
<1>4. u = v - Part(k, j.id, j.before) + Part(k, j.id, j.after)
  BY <1>1 DEF Committed, Posted
<1>5. CASE j.id \in S
  <2>1. f[j.id] = Part(k, j.id, j.before) /\ h[j.id] = Part(k, j.id, j.after)
    BY <1>5, RecordsAfter DEF PartOf
  <2>2. u = v - f[j.id] + h[j.id]
    BY <1>4, <2>1
  <2>3. IsTotal(S, h, u)
    <3> HIDE DEF f, h, u, v
    <3> QED
      BY <1>0, <1>1, <1>2, <1>3, <1>5, <2>2, TotalUpdate
  <2>4. u \in Nat
    <3> HIDE DEF f, h, u, v
    <3> QED
      BY <1>1, <1>2, <2>3, TotalNat
  <2> QED
    BY <2>3, <2>4
<1>6. CASE j.id \notin S
  <2>1. Part(k, j.id, j.before) = 0 /\ Part(k, j.id, j.after) = 0
    BY <1>6 DEF Part
  <2>2. u = v
    BY <1>1, <1>4, <2>1
  <2>3. h = f
    <3> HIDE DEF f, h
    <3> QED
      BY <1>2, <1>3, <1>6
  <2> QED
    BY <1>1, <2>2, <2>3
<1> QED
  BY <1>5, <1>6

\* The number of pending approvals follows the record that changes.
LEMMA CommitPending ==
  ASSUME IInv, NEW j, JobFields(j), PreparedOK(j), Committed(j)
  PROVE  /\ total'["pending"] = Cardinality({r \in Ids : record'[r].status = "pending"})
         /\ total'["pending"] \in Nat
<1> DEFINE P == {r \in Ids : record[r].status = "pending"}
           Q == {r \in Ids : record'[r].status = "pending"}
           n == total["pending"]
<1>1. n = Cardinality(P) /\ IsFiniteSet(P) /\ n \in Nat
  BY FinanceAssumption, FS_Subset DEF IInv, TypeOK, TotalsPosted, Summaries
<1>2. \A r \in Ids : r # j.id => (r \in P <=> r \in Q)
  BY RecordsAfter
<1>3. /\ j.id \in P <=> j.before.status = "pending"
      /\ j.id \in Q <=> j.after.status = "pending"
  BY RecordsAfter DEF JobFields
<1>4. total'["pending"] = n - Part("pending", j.id, j.before) + Part("pending", j.id, j.after)
  BY DEF Committed, Posted, Summaries
<1>5. /\ Part("pending", j.id, j.before) = IF j.id \in P THEN 1 ELSE 0
      /\ Part("pending", j.id, j.after) = IF j.id \in Q THEN 1 ELSE 0
  BY <1>3 DEF Part
<1>6. j.id \in Ids /\ P \subseteq Ids /\ Q \subseteq Ids
  BY DEF JobFields
<1> HIDE DEF P, Q, n
<1>7. CASE j.id \in P <=> j.id \in Q
  <2>1. P = Q
    BY <1>2, <1>6, <1>7
  <2> QED
    BY <1>1, <1>4, <1>5, <1>7, <2>1 DEF Q
<1>8. CASE j.id \in P /\ j.id \notin Q
  <2>1. Q = P \ {j.id}
    BY <1>2, <1>6, <1>8
  <2>2. Cardinality(Q) = n - 1 /\ Cardinality(Q) \in Nat
    BY <1>1, <1>8, <2>1, FS_RemoveElement, FS_CardinalityType
  <2> QED
    BY <1>1, <1>4, <1>5, <1>8, <2>2 DEF Q
<1>9. CASE j.id \notin P /\ j.id \in Q
  <2>1. Q = P \cup {j.id}
    BY <1>2, <1>6, <1>9
  <2>2. Cardinality(Q) = n + 1
    BY <1>1, <1>9, <2>1, FS_AddElement
  <2> QED
    BY <1>1, <1>4, <1>5, <1>9, <2>2 DEF Q
<1> QED
  BY <1>7, <1>8, <1>9

LEMMA CommitTotals ==
  ASSUME IInv, NEW j, JobFields(j), PreparedOK(j), Committed(j)
  PROVE  TotalsPosted' /\ total' \in [Summaries -> Nat]
<1> DEFINE S == Payments \cup Expenses
<1>1. IsTotal(S, PartOf("spending", S), total["spending"])
      /\ IsTotal(Expenses, PartOf("expenses", Expenses), total["expenses"])
  BY DEF IInv, TotalsPosted
<1>2. S \subseteq Ids /\ Expenses \subseteq Ids
  BY DEF Ids
<1>3. IsTotal(S, PartOf("spending", S)', total'["spending"]) /\ total'["spending"] \in Nat
  BY <1>1, <1>2, CommitTotal
<1>4. /\ IsTotal(Expenses, PartOf("expenses", Expenses)', total'["expenses"])
      /\ total'["expenses"] \in Nat
  BY <1>1, <1>2, CommitTotal
<1>5. total' = [k \in Summaries |-> total'[k]]
  BY DEF Committed
<1> QED
  BY <1>3, <1>4, <1>5, CommitPending DEF TotalsPosted, Summaries

LEMMA CommitReference ==
  ASSUME IInv, NEW j, JobFields(j), PreparedOK(j), Committed(j)
  PROVE  UniqueReference'
<1> SUFFICES ASSUME NEW r \in Ids, NEW s \in Ids, r # s,
                    {r, s} \subseteq Bills \/ {r, s} \subseteq Payments,
                    NEW f \in record'[r].reference, f \in record'[s].reference
             PROVE  FALSE
  BY DEF UniqueReference
<1>1. ASSUME NEW q \in Ids, q # j.id PROVE record'[q].reference = record[q].reference
  BY <1>1, RecordsAfter
<1>2. record[r].reference \cap record[s].reference = {}
  BY DEF IInv, UniqueReference
<1>3. Unique(r, f) = Unique(s, f)
  BY FinanceAssumption DEF Unique
<1>4. ASSUME NEW q \in Ids, f \in record[q].reference PROVE Unique(q, f) \in claimed
  BY <1>4 DEF IInv, Stored
<1>5. j.before.version > 0 => j.after.reference = record[j.id].reference
  BY RecordsAfter DEF JobFields, PreparedOK, Lawful
<1>6. j.before.version = 0 => \A g \in j.after.reference : Unique(j.id, g) \notin claimed
  BY DEF Committed, Unclaimed
<1>7. j.before.version = 0 \/ j.before.version > 0
  BY DEF JobFields, Records
<1>8. record'[j.id].reference = j.after.reference
  BY RecordsAfter DEF JobFields
<1>9. CASE r = j.id
  <2>1. f \in record[s].reference
    BY <1>1, <1>9
  <2> QED
    BY <1>2, <1>3, <1>4, <1>5, <1>6, <1>7, <1>8, <1>9, <2>1
<1>10. CASE s = j.id
  <2>1. f \in record[r].reference
    BY <1>1, <1>10
  <2> QED
    BY <1>2, <1>3, <1>4, <1>5, <1>6, <1>7, <1>8, <1>10, <2>1
<1>11. CASE r # j.id /\ s # j.id
  BY <1>1, <1>2, <1>11
<1> QED
  BY <1>9, <1>10, <1>11

LEMMA CommitStored ==
  ASSUME IInv, NEW j, JobFields(j), PreparedOK(j), Committed(j)
  PROVE  Stored'
<1> SUFFICES ASSUME NEW r \in Ids
             PROVE  /\ record'[r].version = 0 => record'[r] = NoRecord
                    /\ r \notin Payments => record'[r].bill = {}
                    /\ \A b \in record'[r].bill : record'[b].status = "approved"
                    /\ \A f \in record'[r].reference : Unique(r, f) \in claimed'
  BY DEF Stored
<1>1. /\ record[r].version = 0 => record[r] = NoRecord
      /\ r \notin Payments => record[r].bill = {}
      /\ \A b \in record[r].bill : record[b].status = "approved"
      /\ \A f \in record[r].reference : Unique(r, f) \in claimed
  BY DEF IInv, Stored
<1>2. \A f \in record[r].reference : Unique(r, f) \in claimed'
  BY <1>1 DEF Committed
<1>3. record[r] \in Records /\ record'[r] \in Records
  BY Linked, RecordsAfter
<1>4. \A b \in Bills : record[b].status = "approved" => record'[b].status = "approved"
  BY BillsStay
<1>5. CASE r = j.id
  <2>1. record'[r] = j.after
    BY <1>5, RecordsAfter
  <2>2. j.after.version # 0
    BY DEF JobFields, Records, PreparedOK, StillCurrent
  <2>3. \A b \in j.after.bill : record[b].status = "approved" /\ b \in Bills
    BY <1>3, <2>1 DEF PreparedOK, Balanced, Records
  <2>4. \A f \in j.after.reference : Unique(r, f) \in claimed'
    BY <1>5 DEF Committed
  <2>5. r \notin Payments => j.after.bill = {}
    BY <1>5 DEF PreparedOK, Balanced
  <2> QED
    BY <1>4, <2>1, <2>2, <2>3, <2>4, <2>5
<1>6. CASE r \in j.pays
  <2>1. record[r].version # 0
    BY <1>1, <1>6, RecordsAfter DEF NoRecord
  <2> QED
    BY <1>1, <1>2, <1>3, <1>4, <1>6, <2>1, RecordsAfter DEF Records
<1>7. CASE r # j.id /\ r \notin j.pays
  <2>1. record'[r] = record[r]
    BY <1>7, RecordsAfter
  <2> QED
    BY <1>1, <1>2, <1>3, <1>4, <2>1 DEF Records
<1> QED
  BY <1>5, <1>6, <1>7

\* A transaction that another invocation has prepared stays prepared.
LEMMA CommitOther ==
  ASSUME IInv, NEW j, JobFields(j), PreparedOK(j), Committed(j),
         NEW q, JobFields(q), PreparedOK(q)
  PROVE  PreparedOK(q)'
<1>1. /\ q.before.version \in Nat /\ record[q.id].version \in Nat
      /\ record'[q.id].version \in Nat
  BY Linked, RecordsAfter DEF JobFields, Records
<1>2. /\ q.before.version <= record[q.id].version
      /\ q.before.version = record[q.id].version => q.before = record[q.id]
      /\ q.after.version = q.before.version + 1
  BY DEF PreparedOK, StillCurrent
<1>3. StillCurrent(q)'
  <2>1. CASE q.id = j.id
    <3>1. record'[q.id].version = record[q.id].version + 1
      BY <2>1, RecordsAfter DEF JobFields, PreparedOK, StillCurrent
    <3> QED
      BY <1>1, <1>2, <3>1 DEF StillCurrent
  <2>2. CASE q.id \in j.pays
    <3>1. record'[q.id].version = record[q.id].version /\ record[q.id].status = "approved"
      BY <2>2, RecordsAfter DEF JobFields
    <3>2. q.before # record[q.id]
      BY <2>2, <3>1 DEF JobFields, PreparedOK, Lawful
    <3> QED
      BY <1>1, <1>2, <3>1, <3>2 DEF StillCurrent
  <2>3. CASE q.id # j.id /\ q.id \notin j.pays
    <3>1. record'[q.id] = record[q.id]
      BY <2>3, RecordsAfter DEF JobFields
    <3> QED
      BY <1>2, <3>1 DEF StillCurrent
  <2> QED
    BY <2>1, <2>2, <2>3
<1>4. Lawful(q)'
  BY DEF PreparedOK, Lawful
<1>5. Balanced(q)'
  <2>1. \A b \in q.after.bill : record'[b].status = "approved"
    BY BillsStay DEF PreparedOK, Balanced, JobFields, Records
  <2> QED
    BY <2>1 DEF PreparedOK, Balanced
<1>6. Permitted(q)'
  BY DEF PreparedOK, Permitted, Committed
<1> QED
  BY <1>3, <1>4, <1>5, <1>6 DEF PreparedOK

LEMMA CommitStep ==
  ASSUME IInv, NEW i \in Invocations, Commit(i)
  PROVE  IInv'
<1>1. PICK j : j = job[i]
  OBVIOUS
<1>2. /\ Committed(j) /\ job' = [job EXCEPT ![i] = Idle]
      /\ JobFields(j) /\ PreparedOK(j)
  BY <1>1, CommitFacts
<1>3. TypeOK'
  <2>1. record' \in [Ids -> Records]
    <3>1. record' = [r \in Ids |-> record'[r]]
      BY <1>2 DEF Committed
    <3> QED
      BY <1>2, <3>1, RecordsAfter
  <2>2. claimed' \subseteq {"bill", "payment"} \X References
    <3>1. \A f \in j.after.reference : Unique(j.id, f) \in {"bill", "payment"} \X References
      BY <1>2 DEF JobFields, Records, Unique
    <3> QED
      BY <1>2, <3>1 DEF Committed, IInv, TypeOK
  <2>3. job' \in [Invocations -> Jobs]
    BY <1>2 DEF IInv, TypeOK, Jobs
  <2>4. project' = project
    BY <1>2 DEF Committed
  <2> QED
    BY <1>2, <2>1, <2>2, <2>3, <2>4, CommitPaid, CommitTotals DEF IInv, TypeOK
<1>4. Prepared'
  <2> SUFFICES ASSUME NEW k \in Invocations, job'[k] # Idle
               PROVE  PreparedOK(job[k])'
    BY DEF Prepared, PreparedOK
  <2>1. PICK q : q = job[k]
    OBVIOUS
  <2>2. job'[k] = q /\ q # Idle
    BY <1>2, <2>1 DEF IInv, TypeOK
  <2>3. PreparedOK(q) /\ JobFields(q)
    BY <2>1, <2>2, HoldsNow, JobType DEF IInv, JobFields
  <2> QED
    BY <1>2, <2>2, <2>3, CommitOther, HoldsAfter
<1> QED
  BY <1>2, <1>3, <1>4, CommitPaid, CommitTotals, CommitReference, CommitStored DEF IInv

-----------------------------------------------------------------------------
LEMMA NextStep ==
  ASSUME IInv, [Next]_vars
  PROVE  IInv'
<1>1. ASSUME NEW i \in Invocations, Request(i)
      PROVE  IInv'
  BY <1>1, StartCreateStep, StartUpdateStep, StartApproveStep, StartReverseStep,
     CommitStep, AbandonStep DEF Request
<1>2. ASSUME NEW s \in {"active", "archived"}, PutProject(s)
      PROVE  IInv'
  BY <1>2, PutProjectStep
<1>3. CASE UNCHANGED vars
  <2>1. UNCHANGED << record, claimed, total, project >> /\ job' = job
    BY <1>3 DEF vars
  <2>2. TypeOK'
    BY <2>1 DEF IInv, TypeOK
  <2>3. Prepared'
    BY <2>1 DEF IInv, Prepared, StillCurrent, Lawful, Balanced, Permitted
  <2> QED
    BY <2>1, <2>2, <2>3, StillStored DEF IInv
<1> QED
  BY <1>1, <1>2, <1>3 DEF Next

\* Records, totals and prepared transactions keep the shape that the
\* invariants below need, in every reachable state.
LEMMA Invariance == Spec => []IInv
<1>1. IInv /\ [Next]_vars => IInv'
  BY NextStep
<1> QED
  BY <1>1, InitIInv, PTL DEF Spec

\* The variables have their types; no bill is paid a negative amount and no
\* total is negative.
THEOREM TypeCorrect == Spec => []TypeOK
BY Invariance, PTL DEF IInv

\* A bill's paidAmount is the sum of its approved payments and covered by the
\* bill, whatever approve_linked_payment and reverse_financial interleave.
THEOREM BillsCovered == Spec => []BillCovered
BY Invariance, PTL DEF IInv

\* The totals transact keeps by deltas are what the records add up to.
THEOREM TotalsCorrect == Spec => []TotalsPosted
BY Invariance, PTL DEF IInv

\* The UNIQUE# items keep numbers of bills and of payments apart.
THEOREM ReferencesUnique == Spec => []UniqueReference
BY Invariance, PTL DEF IInv

\* Only a commit changes records.
LEMMA OnlyCommits ==
  ASSUME [Next]_vars
  PROVE  \/ UNCHANGED << record, total >>
         \/ \E i \in Invocations : Commit(i)
<1>1. ASSUME NEW i \in Invocations, Request(i)
      PROVE  UNCHANGED << record, total >> \/ Commit(i)
  BY <1>1, Zenon DEF Request, StartCreate, StartUpdate, StartApprove, StartReverse, Abandon
<1>2. ASSUME NEW s \in {"active", "archived"}, PutProject(s)
      PROVE  UNCHANGED << record, total >>
  BY <1>2 DEF PutProject
<1> QED
  BY <1>1, <1>2 DEF Next, vars

\* A commit leaves approved and reversed records as they are, but for the
\* reversal.
LEMMA CommitFixed ==
  ASSUME IInv, NEW i \in Invocations, Commit(i), NEW r \in Ids
  PROVE  /\ record[r].status = "approved" => record'[r].status \in {"approved", "reversed"}
         /\ record[r].status = "reversed" => record'[r].status = "reversed"
         /\ record[r].status \in {"approved", "reversed"} =>
              record'[r].amount = record[r].amount
<1>1. PICK j : j = job[i]
  OBVIOUS
<1>2. Committed(j) /\ JobFields(j) /\ PreparedOK(j)
  BY <1>1, CommitFacts
<1>3. CASE r = j.id
  BY <1>2, <1>3, RecordsAfter DEF PreparedOK, Lawful
<1>4. CASE r # j.id
  BY <1>2, <1>4, RecordsAfter
<1> QED
  BY <1>3, <1>4

\* What is approved stays as it was approved, and what is reversed stays
\* reversed, though edits and reviews were prepared from older versions.
THEOREM ApprovedStays == Spec => ApprovedFixed
<1> DEFINE Fixed == \A r \in Ids :
       /\ record[r].status = "approved" => record'[r].status \in {"approved", "reversed"}
       /\ record[r].status = "reversed" => record'[r].status = "reversed"
       /\ record[r].status \in {"approved", "reversed"} =>
            record'[r].amount = record[r].amount
<1>1. IInv /\ [Next]_vars => Fixed
  <2> SUFFICES ASSUME IInv, [Next]_vars PROVE Fixed
    OBVIOUS
  <2>1. CASE UNCHANGED << record, total >>
    BY <2>1
  <2>2. ASSUME NEW i \in Invocations, Commit(i) PROVE Fixed
    BY <2>2, CommitFixed
  <2> QED
    BY <2>1, <2>2, OnlyCommits
<1>2. IInv /\ [Next]_vars => [Fixed]_vars
  BY <1>1
<1> QED
  BY <1>2, Invariance, PTL DEF Spec, ApprovedFixed

\* A commit in an archived project rejects or reverses, and spends nothing.
LEMMA CommitArchived ==
  ASSUME IInv, NEW i \in Invocations, Commit(i), project.status = "archived"
  PROVE  /\ total'["spending"] <= total["spending"]
         /\ \A r \in Ids : record'[r].status \in {record[r].status, "rejected", "reversed"}
<1>1. PICK j : j = job[i]
  OBVIOUS
<1>2. Committed(j) /\ JobFields(j) /\ PreparedOK(j)
  BY <1>1, CommitFacts
<1>3. j.after.status \in {"rejected", "reversed"}
  BY <1>2 DEF Committed, Stands, PreparedOK, Permitted, Exempt
<1>4. total["spending"] \in Nat
  BY DEF IInv, TypeOK, Summaries
<1>5. Part("spending", j.id, j.before) \in Nat /\ Part("spending", j.id, j.after) = 0
  BY <1>2, <1>3 DEF Part, JobFields, Records
<1>6. total'["spending"] = total["spending"] - Part("spending", j.id, j.before)
                             + Part("spending", j.id, j.after)
  BY <1>2 DEF Committed, Posted, Summaries
<1>7. ASSUME NEW r \in Ids
      PROVE  record'[r].status \in {record[r].status, "rejected", "reversed"}
  <2>1. CASE r = j.id
    BY <1>2, <1>3, <2>1, RecordsAfter
  <2>2. CASE r # j.id
    BY <1>2, <2>2, RecordsAfter
  <2> QED
    BY <2>1, <2>2
<1> QED
  BY <1>4, <1>5, <1>6, <1>7

\* A request validated before the project was archived does not submit,
\* approve or spend after it.
THEOREM ArchivedStays == Spec => ArchivedFrozen
<1> DEFINE Frozen == project.status = "archived" =>
       /\ total["spending"]' <= total["spending"]
       /\ \A r \in Ids : record'[r].status \in {record[r].status, "rejected", "reversed"}
<1>1. IInv /\ [Next]_vars => Frozen
  <2> SUFFICES ASSUME IInv, [Next]_vars, project.status = "archived" PROVE Frozen
    OBVIOUS
  <2>1. CASE UNCHANGED << record, total >>
    <3>1. total["spending"] \in Nat
      BY DEF IInv, TypeOK, Summaries
    <3> QED
      BY <2>1, <3>1
  <2>2. ASSUME NEW i \in Invocations, Commit(i) PROVE Frozen
    BY <2>2, CommitArchived
  <2> QED
    BY <2>1, <2>2, OnlyCommits
<1>2. IInv /\ [Next]_vars => [Frozen]_vars
  BY <1>1
<1> QED
  BY <1>2, Invariance, PTL DEF Spec, ArchivedFrozen
=============================================================================
