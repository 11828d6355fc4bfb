---------------------------- MODULE SpendingRepair ----------------------------
(***************************************************************************)
(* The operator's repair of the derived totals, of a project (reconcile)   *)
(* or of the organization's reports (reconcile_reports), against requests  *)
(* that keep posting.  A control item of each carries the repair's lease   *)
(* and a revision that every posting to its totals raises.                 *)
(*                                                                         *)
(* A repair runs for minutes: it reads the source records one after the    *)
(* other and the totals after them, and then writes what differs, batch by *)
(* batch.  Without apply it only reports, holds no lease, and relies on    *)
(* the revision.  A posting is one conditional transaction; that what it   *)
(* read of its record is current at its commit is shown in Finance and     *)
(* WorkerPayroll, and it is one step here.                                 *)
(*                                                                         *)
(* The clock is abstracted to a lease that is live or has lapsed: it       *)
(* lapses 600 seconds after it was extended last, in the middle of         *)
(* anything.  A run reads :now before it sends a write on that condition,  *)
(* so its lease need only have been live right after the step before it.   *)
(***************************************************************************)
EXTENDS Totals

CONSTANTS
  Expenses,     \* EXPENSE# items of FINANCE, or another table the reports read
  Wages,        \* DAILYWAGE# items of WORKFORCE
  MaxAmount,    \* bound: amount of a record
  Begun,        \* which records there may be in the beginning
  Drifted,      \* which totals may be off, by one, in the beginning
  Tables,       \* the records of each source table, in the order they are read
  Runs,         \* repair runs, each with its control item, and whether it applies
  MaxRevision   \* bound: postings

Controls == {"project", "reports"}
Invocations == {run[1] : run \in Runs}
Ids == Expenses \cup Wages

\* SPENDING# of the project, its MONTH# and DAY# items, WORKER-MONTH#; the
\* records of a model are of one day
ProjectRows == {"spending", "month", "wages"}
\* SUMMARY#EXPENSES and its DAY# items, SUMMARY#APPROVALS
ReportRows == {"expenses", "pending"}
Rows == ProjectRows \cup ReportRows

\* The status of a wage is its paymentStatus
ExpenseStatuses == {"none", "draft", "pending", "rejected", "approved", "reversed"}
WageStatuses == {"none", "unpaid", "paid"}
Records == [status: ExpenseStatuses \cup WageStatuses, amount: Nat]
NoRecord == [status |-> "none", amount |-> 0]
\* Which status is whose
Kinds(f) == /\ \A r \in Expenses : f[r].status \in ExpenseStatuses
            /\ \A r \in Wages : f[r].status \in WageStatuses

ASSUME RepairAssumption ==
  /\ Expenses \cap Wages = {} /\ IsFiniteSet(Ids)
  /\ MaxAmount \in Nat /\ Drifted \subseteq SUBSET Rows
  /\ \A b \in Begun : b \in [Ids -> Records] /\ Kinds(b)
  /\ Runs \subseteq Invocations \X Controls \X BOOLEAN
  /\ UNION {Tables[n] : n \in DOMAIN Tables} = Ids
  /\ \A m, n \in DOMAIN Tables : m # n => Tables[m] \cap Tables[n] = {}

VARIABLES
  record,   \* EXPENSE# and DAILYWAGE# items
  total,    \* the items of Rows
  control,  \* CONTROL of the project and CONTROL#REPORTS
  job       \* what each repair run does

vars == << record, total, control, job >>

-----------------------------------------------------------------------------
RowsOf(c) == IF c = "project" THEN ProjectRows ELSE ReportRows
SourcesOf(c) == IF c = "project" THEN Ids ELSE Expenses

Idle == [op |-> "idle"]
Do(i, j) == job' = [job EXCEPT ![i] = j]

UnlockedSlip(c) == control[c].owner = {}

\* attribute_not_exists(leaseUntil) OR leaseUntil < :now
Unlocked(c) == ~control[c].live

\* Whether the lease of a run that applies is its own and has not passed
Live(i, j) == j.leased /\ control[j.control].owner = {i} /\ control[j.control].live

\* leaseOwner = :owner AND leaseUntil >= :now; live keeps whether the lease was
\* live when the run had done the step before this write
Held(i, j) == control[j.control].owner = {i} /\ j.live

\* A write on that condition extends the lease, and is late when it had passed
Extended(c) == [control EXCEPT ![c].live = TRUE]
Late(i) == job[i].late \/ ~Live(i, job[i])

-----------------------------------------------------------------------------
(* storage.transact                                                         *)

\* What a submission, a review, a reversal or a day's attendance may put
New == [status: (ExpenseStatuses \cup WageStatuses) \ {"none"}, amount: 0..MaxAmount]

Transition == { <<"none", "draft">>, <<"none", "pending">>,
                <<"draft", "pending">>, <<"pending", "approved">>,
                <<"pending", "rejected">>, <<"rejected", "pending">>,
                <<"approved", "reversed">> }

\* An expense is edited until it is approved, also with a change of its status
ExpensePut(y, x) ==
  /\ << y.status, x.status >> \in Transition \/ y.status = x.status
  /\ y.status \in {"approved", "reversed"} => x.amount = y.amount
  /\ x.amount > 0

\* A day's wage may be saved as paid at once, and corrected after it was paid;
\* an absent worker earns none, and is not paid
WagePut(x) ==
  /\ x.status \in {"unpaid", "paid"}
  /\ x.status = "paid" => x.amount > 0

\* contribution
Contribution(x) == IF x.status \in {"approved", "paid"} THEN x.amount ELSE 0

\* worker_contribution: of daily wages only
WorkerContribution(x) == IF x.status \in {"unpaid", "paid"} THEN x.amount ELSE 0

\* What a record adds to a row
Value(k, x) ==
  CASE k \in {"spending", "month"} -> Contribution(x)
    [] k = "wages" -> WorkerContribution(x)
    [] k = "expenses" -> IF x.status = "paid" THEN 0 ELSE Contribution(x)
    [] k = "pending" -> IF x.status = "pending" THEN 1 ELSE 0

DeltaSlip(k, r, x) == Value(k, x)

\* The after of a posting less its before
Delta(k, r, x) == Value(k, x) - Value(k, record[r])

TouchedSlip(r, x) == {c \in Controls :
  \E k \in RowsOf(c) \ {"wages"} : Delta(k, r, x) # 0}

\* The control items whose revision a posting raises: of the totals it moves,
\* and the project's with any wage
Touched(r, x) == {c \in Controls :
  \/ \E k \in RowsOf(c) : Delta(k, r, x) # 0
  \/ c = "project" /\ r \in Wages}

PostRecord(r, x) ==
  /\ (r \in Expenses /\ ExpensePut(record[r], x)) \/ (r \in Wages /\ WagePut(x))
  /\ \A c \in Touched(r, x) : Unlocked(c) /\ control[c].revision < MaxRevision
  /\ record' = [record EXCEPT ![r] = x]
  /\ total' = [k \in Rows |-> total[k] + Delta(k, r, x)]
  /\ control' = [c \in Controls |->
       IF c \in Touched(r, x) THEN [control[c] EXCEPT !.revision = @ + 1]
                              ELSE control[c]]
  /\ UNCHANGED job

-----------------------------------------------------------------------------
(* reconcile and reconcile_reports                                          *)

\* Reads the revision; leased runs, those that apply, claim the lease next
StartRepair(i, c, leased) ==
  /\ job[i] = Idle /\ << i, c, leased >> \in Runs
  /\ Do(i, [op |-> IF leased THEN "claim" ELSE "read", control |-> c,
            leased |-> leased, live |-> FALSE, late |-> FALSE,
            revision |-> control[c].revision, left |-> SourcesOf(c),
            seen |-> [r \in Ids |-> NoRecord], differs |-> {}])
  /\ UNCHANGED << record, total, control >>

ClaimLease(i) ==
  LET c == job[i].control
  IN  /\ job[i].op = "claim"
      /\ Unlocked(c) /\ control[c].revision = job[i].revision
      /\ control' = [control EXCEPT ![c].owner = {i}, ![c].live = TRUE]
      /\ Do(i, [job[i] EXCEPT !.op = "read"])
      /\ UNCHANGED << record, total >>

\* Reads a source record, the tables in turn; the lease is extended when one was
\* read
ReadRecord(i, r) ==
  LET left == job[i].left \ {r}
      done == \E n \in DOMAIN Tables : r \in Tables[n] /\ Tables[n] \cap left = {}
  IN  /\ job[i].op = "read" /\ r \in job[i].left
      /\ \A n \in DOMAIN Tables : r \in Tables[n] =>
           \A m \in DOMAIN Tables : m < n => Tables[m] \cap left = {}
      /\ Do(i, [job[i] EXCEPT !.op = IF done /\ job[i].leased THEN "extend" ELSE "read",
                              !.left = left, !.seen[r] = record[r],
                              !.live = done /\ Live(i, job[i])])
      /\ UNCHANGED << record, total, control >>

ExtendLease(i) ==
  /\ job[i].op = "extend" /\ Held(i, job[i])
  /\ control' = Extended(job[i].control)
  /\ Do(i, [job[i] EXCEPT !.op = "read", !.live = FALSE, !.late = Late(i)])
  /\ UNCHANGED << record, total >>

\* What the records read add up to, and the rows of K that are not that
Implied(k, seen) == Sum(Ids, [r \in Ids |-> Value(k, seen[r])])
Differing(j, K) == {k \in K : total[k] # Implied(k, j.seen)}

ReadTotals(i) ==
  /\ job[i].op = "read" /\ job[i].left = {}
  /\ Do(i, [job[i] EXCEPT !.op = "verify",
            !.differs = Differing(job[i], RowsOf(job[i].control) \ {"wages"})])
  /\ UNCHANGED << record, total, control >>

UnmovedSlip(j) == TRUE

\* 'Spending changed during reconciliation' is not raised
Unmoved(j) == control[j.control].revision = j.revision

Verify(i) ==
  /\ job[i].op = "verify" /\ Unmoved(job[i])
  /\ Do(i, [job[i] EXCEPT !.op = IF job[i].control = "project" THEN "wages" ELSE "write",
                          !.live = job[i].control # "project" /\ Live(i, job[i])])
  /\ UNCHANGED << record, total, control >>

\* The project's worker months are compared after the check
ReadWages(i) ==
  /\ job[i].op = "wages"
  /\ Do(i, [job[i] EXCEPT !.op = "write", !.live = Live(i, job[i]),
                          !.differs = @ \cup Differing(job[i], {"wages"})])
  /\ UNCHANGED << record, total, control >>

\* One batch, here of one row; worker months come last
WriteRow(i, k) ==
  /\ job[i].op = "write" /\ job[i].leased
  /\ k \in job[i].differs
  /\ k = "wages" => job[i].differs = {"wages"}
  /\ Held(i, job[i])
  /\ total' = [total EXCEPT ![k] = Implied(k, job[i].seen)]
  /\ control' = Extended(job[i].control)
  /\ Do(i, [job[i] EXCEPT !.differs = @ \ {k}, !.live = TRUE, !.late = Late(i)])
  /\ UNCHANGED record

FreedSlip(i, c) == [control[c] EXCEPT !.owner = {}]

\* REMOVE leaseOwner, leaseUntil on the condition leaseOwner = :owner
Freed(i, c) == IF control[c].owner = {i}
               THEN [control[c] EXCEPT !.owner = {}, !.live = FALSE]
               ELSE control[c]

\* finally: at the end, or after an exception anywhere
FinishRepair(i) ==
  /\ job[i].op \in {"read", "extend", "verify", "wages", "write"}
  /\ control' = [c \in Controls |->
       IF job[i].leased /\ c = job[i].control THEN Freed(i, c) ELSE control[c]]
  /\ Do(i, Idle)
  /\ UNCHANGED << record, total >>

-----------------------------------------------------------------------------
\* A run refused the lease, or killed: a lease it holds stays
Abandon(i) ==
  /\ job[i] # Idle
  /\ Do(i, Idle)
  /\ UNCHANGED << record, total, control >>

\* leaseUntil passes
Lapse(c) ==
  /\ control[c].live
  /\ control' = [control EXCEPT ![c].live = FALSE]
  /\ UNCHANGED << record, total, job >>

Init ==
  /\ record \in Begun
  /\ \E K \in Drifted : total = [k \in Rows |->
       Implied(k, record) + IF k \in K THEN 1 ELSE 0]
  /\ control = [c \in Controls |-> [owner |-> {}, live |-> FALSE, revision |-> 0]]
  /\ job = [i \in Invocations |-> Idle]

Repair(i) ==
  \/ \E c \in Controls, leased \in BOOLEAN : StartRepair(i, c, leased)
  \/ ClaimLease(i)
  \/ \E r \in Ids : ReadRecord(i, r)
  \/ ExtendLease(i) \/ ReadTotals(i) \/ Verify(i) \/ ReadWages(i)
  \/ \E k \in Rows : WriteRow(i, k)
  \/ FinishRepair(i) \/ Abandon(i)

Next ==
  \/ \E r \in Ids, x \in New : PostRecord(r, x)
  \/ \E i \in Invocations : Repair(i)
  \/ \E c \in Controls : Lapse(c)

\* Time passes.  Nothing else is fair: requests may stop coming, runs may hang
\* or be killed at any step.
Fairness == \A c \in Controls : WF_vars(Lapse(c))

Spec == Init /\ [][Next]_vars /\ Fairness
-----------------------------------------------------------------------------
(* Properties.                                                             *)

Jobs == {Idle}
  \cup [op: {"claim", "read", "extend", "verify", "wages", "write"},
        control: Controls, leased: BOOLEAN, live: BOOLEAN, late: BOOLEAN,
        revision: Nat, left: SUBSET Ids, seen: [Ids -> Records],
        differs: SUBSET Rows]

\* Records, control items and runs have their types; a live lease has its
\* owner.
TypeOK ==
  /\ record \in [Ids -> Records] /\ Kinds(record) /\ total \in [Rows -> Int]
  /\ control \in [Controls -> [owner: SUBSET Invocations, live: BOOLEAN,
                               revision: Nat]]
  /\ \A c \in Controls : control[c].live => control[c].owner # {}
  /\ job \in [Invocations -> Jobs]

\* A repair that has written its last batch, or found nothing to write, and
\* still holds its lease leaves no total of its control item that differs from
\* the records, although it read them one by one long before, unless one of its
\* own writes came when its lease had passed.
RepairComplete == \A i \in Invocations :
  /\ job[i].op = "write" /\ job[i].differs = {}
  /\ Live(i, job[i]) /\ ~job[i].late
  => \A k \in RowsOf(job[i].control) : total[k] = Implied(k, record)

\* "Revision checks let dry-run reconciliation detect a changing source
\* snapshot": a run that passes the check, leased or not, has read from the
\* records what they imply at that moment.
SnapshotExact ==
  [][\A i \in Invocations : job[i].op = "verify" /\ job'[i].op \in {"wages", "write"} =>
       \A k \in RowsOf(job[i].control) : Implied(k, job[i].seen) = Implied(k, record)]_vars

\* A repair that is killed with its lease does not block posting for good:
\* each control item is unlocked again and again.
PostingResumes == \A c \in Controls : []<>Unlocked(c)
\* However records are changed, no posting changes by how much a total is off,
\* and a batch sets its totals to what the records add up to at that moment, or
\* its run was late (Ledger).
Abstract == INSTANCE Ledger WITH
  overdue <- \E i \in Invocations : job[i] # Idle /\ job[i].late
LedgerSpec == Abstract!LedgerSpec
-----------------------------------------------------------------------------
(* The inductive invariant.                                                *)

\* While a run's lease is live and none of its writes came late, or as long as
\* the revision has not moved, what it has read of the records still stands
SeenStands(i, j) ==
  \/ ~j.late /\ Live(i, j)
  \/ Unmoved(j)
  => \A r \in SourcesOf(j.control) \ j.left, k \in RowsOf(j.control) :
       Value(k, j.seen[r]) = Value(k, record[r])

\* The rows a run has compared with what it read
ComparedRows(j) ==
  CASE j.op \in {"verify", "wages"} -> RowsOf(j.control) \ {"wages"}
    [] j.op = "write" -> RowsOf(j.control)
    [] OTHER -> {}

\* While its lease is live, those it does not count as differing still do not
ComparedStand(i, j) == ~j.late /\ Live(i, j) =>
  \A k \in ComparedRows(j) \ j.differs : total[k] = Implied(k, j.seen)

\* How far a run has come
Stage(j) ==
  /\ j.op = "claim" => j.left = SourcesOf(j.control)
  /\ j.op \in {"verify", "wages", "write"} => j.left = {}
  /\ j.op = "wages" => j.control = "project"
  /\ j.differs \subseteq ComparedRows(j)
  /\ j.revision <= control[j.control].revision
  /\ Kinds(j.seen)

Sound(i, j) == SeenStands(i, j) /\ ComparedStand(i, j) /\ Stage(j)

IInv == TypeOK /\ \A i \in Invocations : job[i] # Idle => Sound(i, job[i])
=============================================================================
