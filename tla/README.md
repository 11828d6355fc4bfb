# Formal model of the construction back end

The repository is an AWS Lambda API over DynamoDB for construction companies:
projects, workers, attendance, payroll, material stock, finance and accounts.
Many invocations run at once; each reads items one after the other and then
issues one conditional transaction.  Whatever is right about money, wages and
stock rests on those conditions, on leases and on totals kept by deltas.  This
directory models those parts in TLA+, checks them with TLC on small instances
and proves the most important ones with TLAPS for every instance.

## 1. Inventory

| Part (source) | State it keeps | Operations that change it |
|---|---|---|
| headcount gangs (`common/gang_workforce.py`) | `GANG`, `GANG-ACCOUNT`, `GANG-ALLOCATION`, `GANG-DAILY`, `GANG-MONTH`, `GANG-CASH` receipts | gang_configure, gang_allocate, gang_attendance, gang_advance, gang_return |
| named workers (`common/workforce.py`) | `WORKER`, `ALLOCATION`, `DAILY`, `DEBIT`, `WORKER-ADVANCE` and its month totals, `MONTH` revision | register, register_allocate, allocate, attendance, debit, advance, advance_clear, advance_delete, gang_create |
| payroll (`common/payroll.py`) | `PAYROLL#month` header, `PAYROLL-HISTORY`, salaries | generate, reopen, salary configuration |
| register entries (`common/payroll_records.py`) | `PAYROLL-BUILD`, `PAYROLL-ENTRY` pages | save_entries, publish, expand, operator cleanup |
| settlement (`common/payroll_settlement.py`) | settlement receipts, paid groups | settle all, one group, or those without one |
| stock (`common/inventory.py`) | movement records, `BALANCE`, `TOTAL`, `CONTROL#STOCK`, material catalog | receipt, issue, return, usage, catalog |
| reconciliation (`common/reconciliation.py`) | leases on the control items | rebuild stock, spending and worker-month totals |
| storage (`common/storage.py`, `relationships.py`) | `REQUEST#`, `UNIQUE#`, spending deltas | `transact`: one all-or-nothing write |
| API and generic records (`handlers/consolidated.py`, `workflow_*.py`) | indents, bills, payments, purchase orders, site attendance ... | create, PUT with version and transition checks, check-in and out |
| finance, procurement (`finance.py`, `procurement.py`) | bills with their paidAmount, payments, expenses, procurement requests | approve a payment of a bill, reverse |
| accounts (`accounts.py`) | user items, and Cognito's users | create with its undo, disable, enable, edit, invite again |
| the rest | none, or read-only views | authorization, reports, documents, schemas |

**How they interact.**  All share DynamoDB tables.  Attendance, deductions and
advances raise a month's revision that generating a register is conditioned on,
and are conditioned on the register's absence.  The register reserves gang
advances in the accounts; settling turns the reservation into a recovery and
reopening releases it.  Stock movements are conditioned on the repair's lease.
Movements fulfil indents that the generic handler reviews.  Every write goes
through `transact`, which adds to it the deltas of the derived totals, the
revisions of the control items a repair watches, the claims of unique numbers and
the checks of the records it refers to.

**What is hard.**  Reads go stale before the write; clients send requests again;
an invocation or an operator's run stops at any point; leases compare times
that different clocks read at different moments; derived totals drift if a delta
is wrong, lost or applied twice; two writers of one item do not always check
the same version.  `PROJECT.json` lists every hazard at its line.

**What makes each part correct.**  Gangs: no money lost, no advance returned,
recovered or reserved beyond what was given.  Workers: one project pays a date;
advances are recovered once.  Registers: complete or invisible, immutable,
equal to the records, settled once.  Stock: never negative, equal to its
records, requests issued once.  Finance: a bill is not overpaid, a reversal
counts once, approved records stand, totals are what the records add up to.
Repairs: a total is only ever replaced by what its records are at that moment, and
posting is not blocked for good.  Accounts: a deny lasts, an account has its
login and nobody's login is deleted by another's failure.

## 2. Modules

| Module | Models | Role |
|---|---|---|
| `Totals`, `TotalsProofs` | sums of records, and DynamoDB totals kept by ADD | used by every ledger; lemmas on sums |
| `GangPayroll` | gang accounts, assignment, attendance, registers, settlement | core |
| `MCGangPayroll`, `GangPayrollProofs` | | instances, proofs |
| `Register` | what a reader of a month is promised | abstract specification |
| `PayrollBuild` | paged staging, lease, publishing, cleanup | implements `Register` |
| `MCPayrollBuild`, `PayrollBuildProofs` | | instance, proofs |
| `WorkerPayroll` | named workers, and the switch of a gang to headcounts | core |
| `MCWorkerPayroll`, `WorkerPayrollProofs` | | instances, proofs |
| `StockLedger` | movements, indents, stock repair under a lease | core |
| `MCStockLedger`, `StockLedgerProofs` | | instances, proofs |
| `Finance` | bills, payments, expenses, procurement, their totals, an archived project | core |
| `MCFinance`, `FinanceProofs` | | instance, proofs |
| `Ledger` | what posting and repairing derived totals promise | abstract specification |
| `SpendingRepair` | the spending and reports repair against posting | implements `Ledger` |
| `MCSpendingRepair`, `SpendingRepairProofs` | | instance, proofs |
| `Accounts` | the user pool and the profiles, two stores without a transaction | core |
| `MCAccounts`, `AccountsProofs` | | instance, proofs |

**Correspondence.**  A variable is a kind of item, as the comments beside
`VARIABLES` say.  A `StartX(i, ...)` action is what invocation `i` of handler X
reads and validates; `req[i]` (or `job[i]`) keeps what it will use; `CommitX(i)`
is the transaction, whose guard is the condition expression and nothing that an
earlier read promised.  Where a handler's reads are far apart (a register's
sources, the pages of a build, the rows of a repair) each is a step.
In `Finance` the reads of a request and of its transaction's references are one
step, `Prepare`, since the condition of the commit names everything that was
read.  In `SpendingRepair` each source record is a read of its own, the totals
are another and the revision is read after them, as in the code; a posting is one
step, for `Finance` and `WorkerPayroll` show that its condition makes it so.  It
puts an expense in any status that `validate_transition` lets follow, and a wage
unpaid or paid with any amount, whatever it was before: a paid wage is corrected
too.  `SpendingRepair` moves the totals by deltas, as `transact` computes them;
`Ledger`, which it implements, knows no deltas but only how far a total is off
from the records (`Off`), and was written from what a total is for.  In
`Accounts` every call to Cognito and every transaction is a step, `Fail` is a call
that failed, `lost` remembers the profiles that were stored though the answer
did not arrive.

`Abandon(i)` is every way of not writing: a validation error, a failed
condition, a crash, a timeout.  Transact's reference checks (versions of project,
gang and worker) and repair leases on other tables only make a request fail and
are part of it.  A retry by boto, or a client that lost an answer, is a later
request with the same id.  A DynamoDB index that is behind is a read that was
made earlier.

**Abstractions.**  One month.  `createdAt` and `cycleId` of a register are one
fresh id.  "Partially Paid" is written `PartiallyPaid`.  A client's
expectedVersion is the version that was read.  A correction that changes nothing
writes nothing, as in the code.  History and audit puts, which every commit
appends and nothing decides on, are left out.  In `PayrollBuild` a page stands
for up to 80 entries; in `StockLedger` a batch is one row and there is one
material (movements of two meet only in the control item).  In `Finance` and
`SpendingRepair` the totals by month and by day are one, a payment's vendor and
material are left out, and in `SpendingRepair` a batch is one row.  `Accounts` has
one organization.  A clock reading in a
condition was made since the invocation's previous step; in `StockLedger` it is
at most `MaxDelay` old besides, and `SpendingRepair` has no clock: a lease is live
or has lapsed, and a write that a run conditions on its lease commits when the
lease was live right after the run's previous step (`live` of the job), for `:now`
is read before the write is sent.  A write that comes when the lease has passed
is remembered, for the whole model of stock and per run of the spending repair
(`late`), and the properties of repairs say what holds without one and, in
OnlyStaleBatches, what one can do.  The owner uuid of a lease is the invocation.
Registers of gangs and of named workers are parts of one item: `GangPayroll` has
the first part, with settlement per group, and `WorkerPayroll` the second.

## 3. Runs

| Run | Instance | Shows |
|---|---|---|
| `GangSharedAccount` | one gang, two projects, two invocations | AdvanceCovered, SnapshotCurrent, RegisterTotals, ReservationHeld |
| `GangGroups` | two gangs in one register, a cash id sent again | SettledOnce, PaidRegisterStands, CashTotals, WageTotals, TypeOK |
| `PayrollBuild` | two builds of two pages, three invocations, a clock of 0..2 | RegisterComplete, CleanedEmpty, OneFate, the refinement `RegisterSpec` |
| `WorkerAttendance` | one worker, two projects, one date, one deduction | OneProjectPerDate, EntriesCurrent |
| `WorkerAdvances` | two advances and two clearing ids | AdvanceTotals, RecoveryCurrent, ClearedOnce, TypeOK |
| `StockRepair` | one project, two movements, a material request, two invocations, a clock of 0..2, `MaxDelay = 1` | StockCovered, DriftOnlyRepaired, RepairComplete, OnlyStaleBatches, TypeOK |
| `Finance` | a bill, two payments, an expense, a procurement request, two invocations, a project that is archived | BillCovered, TotalsPosted, UniqueReference, ApprovedFixed, ArchivedFrozen, TypeOK |
| `SpendingRepair` | an approved expense, a paid wage, totals that are off, runs with and without apply | the refinement `LedgerSpec`, RepairComplete, SnapshotExact, PostingResumes, TypeOK |
| `Accounts` | an admin and a supervisor, two logins, two invocations | LoginKept, OneProfile, DenyLasts, SuspendedFrozen, TypeOK |
| `GangAssignment`, `HeadcountSwitch`, `StockIndent` | smallest ones | a disagreement each, section 5 |

**Bounds and why they are enough.**  Every race here is between an operation
that has read and one that commits, so two invocations show it; three are needed
where a cleanup takes over from a cleanup while a builder lives
(`PayrollBuild`).  Two projects share an account or a worker; two request ids let
one be sent again while another runs; amounts up to 2 allow a partial and a full
clearing.  Versions, registers, clocks and amounts are capped by the constants
named `Max...`; a cap on versions admits a first write and a correction (and, in
`GangPayroll`, a regenerated register).  `Lease = 0` with a clock of two or three
values lets a lease be live and lapse; `StockRepair` has `Lease = 1`, so that a late
write can make a lapsed lease live again.  `WorkerAdvances` starts where
`register_allocate` and one saved attendance lead (`EarningInit`), to spend its
states on advances.  In `StockRepair` the central balance may start one above its
records, which is what a repair is for, and with `MaxDelay = 1` every batch may be
conditioned on a reading from before its lease passed.  `Finance` runs with
amounts of one: a payment then pays a bill or does not, two payments of one
exceed it, and an edit that changes an amount is left to the proofs, which hold
for all amounts and for drafts too.  `MaxWrites` and `MaxVersion` let a record
be submitted, approved and reversed while another one is.  `SpendingRepair`
starts with an approved expense and a paid wage (`Begun`), and with a month total
and a worker month that are one too high, two rows in two batches, or with one
total of the reports that is; `MaxRevision` allows each control item one posting,
which may come before, between or after any two steps of a run: a reversal, or
the paid wage made unpaid or paid with another amount.  Postings from other states
are of the same definitions, which the theorem LedgerKept is about for all
records; `Finance` checks submission and review of expenses, `WorkerPayroll` a
first save as paid.  `Accounts` has two subs, so that an e-mail can be
invited again after an undo, and three writes of a profile: a disabling, its
second write and an enabling.

Symmetry permutes only identities the code never compares or orders; the run
with the liveness property uses none.

`CHECK_DEADLOCK FALSE` stands in the runs whose model ends when ids, versions
and the clock are spent; `PayrollBuild` can always abandon, tick or reopen, and
there deadlock is checked where its bounds allow it.

**Fairness.**  Only of time: `SpendingRepair!Fairness` is weak fairness of
`Lapse`, which is `leaseUntil` passing on the clock.  Nothing in the code
schedules a client's retry or an operator's run, so requests may stop coming and
a run may hang or be killed at any step, with its lease.  `PostingResumes` says
that each control item is nevertheless unlocked again and again; a lock that
asked for the absence of an owner instead of the time would violate it.
A run that keeps extending its lease is live for as long as it works, which is
bounded by what it has to read.

**Mutants.**  Every property is broken by a one-definition change of the code's
model (a dropped condition, a missing delta, a forgotten exclusion), the `...Slip`
operators; `PROJECT.json` pairs them.

## 4. Proofs

* `GangPayroll`: the inductive invariant `IInv` says that what an invocation has
  read is not newer than what is stored (a version determines the item), that
  cash, wages, reserved and recovered amounts are the sums of receipts, dated
  records and register entries (`IsTotal`), and that a register's entries and
  receipts agree.  The first part is needed because a commit with an unchanged
  version may then use what was read; the totals are needed because the safety
  properties compare an account with many records.  From it: AdvanceCovered,
  CashTotals, WageTotals, RegisterTotals, ReservationHeld, SnapshotCurrent,
  SettledOnce and PaidRegisterStands, for any constants.
* `PayrollBuild`: `IInv` adds to the properties that a build in its builder's
  hands holds exactly what was staged (`Staging`) and that a finishing cleanup
  that still holds its claim left nothing (`Finishing`).  From it:
  RegisterComplete, CleanedEmpty, OneFate, and that every step of `PayrollBuild`
  is a step of `Register` or a stutter.
* `WorkerPayroll`: `IInv` says that a date with attendance has a registered
  worker and an allocation to that project that is started (`AttendanceLocks`),
  and that what an invocation making a register has read equals the records as
  long as the month has the revision it read first (`Generating`).  The first is
  needed because `allocate` sees only the allocation, the second because the
  register is published several reads after its sources.  From it:
  OneProjectPerDate and EntriesCurrent, for any constants.
  `AdvanceInv` is a second invariant, of the advances, and leans on the first for
  what a register being made has read.  It says that a request to clear or delete
  carries an advance which is as stored as long as the version stands
  (`Clearing`), that an advance about to be stored excludes exactly the register
  its giver read (`Giving`) and no register yet to be made (`AdvanceItems`), and
  that the recovery a register is about to publish is the month's total of
  advances while the revision stands (`Recovering`).  The first is needed because
  a delta is subtracted from a total that is not read; the second because an
  advance may be given while a register stands, and only the exclusion keeps it
  out of that register; the third because the register is published after its
  reads.  From it:
  AdvanceTotals, RecoveryCurrent, ClearedOnce and TypeOK, for any constants.  The
  theorems are about `Spec`; the run `WorkerAdvances` starts in a state that `Spec`
  reaches.
* `StockLedger`: `StockInv` says of every invocation what it carries: a movement
  is one that the handler could have validated, and a repair that writes rows has
  read every balance and found that the records imply no negative one (`JobOK`).
  The second is needed for stock never to fall below zero: a repair overwrites a
  balance whatever it is.  From it: TypeOK and StockCovered, for any clock and any
  `MaxDelay`.  `RepairInv` says that while a run's lease has not passed the records
  imply what it has read of them, and that a row it has compared and does not count
  as differing does not differ (`ReadStands`), unless a write under a lease came when
  the lease had passed (`late`): a movement may have come in between.  Both parts
  rest on the movements' condition on the lease alone: the proof never uses that
  the run compares the revision again (`CheckRevision`).  From it: RepairComplete
  and DriftOnlyRepaired, which say so themselves, for any `MaxDelay`.  `RevisionInv`
  says that the records imply what a run has read as long as the revision stands,
  lease or none.  From it: OnlyStaleBatches, also of late batches: what a late
  one puts wrong, it does because the revision had moved since its run read it,
  which the batch does not look at.
* `Finance`: `IInv` says of every prepared transaction that it was prepared from
  what is stored unless the version has moved (`StillCurrent`), that it changes
  its record lawfully (`Lawful`), pays the bills what the record's change means
  for them (`Balanced`), and knows of the archiving of the project unless the
  project's version has moved (`Permitted`); and of the records that linked bills
  are approved and used numbers claimed (`Stored`).  A commit is then one of
  the lawful changes of what is stored, although it was prepared earlier.  From
  it: all six properties of the run, for any constants, drafts included.
* `SpendingRepair`: `IInv` says that what a run has read of the records still
  adds up to the same as long as its lease is live or the revision has not moved
  (`SeenStands`), and that the rows it compared and does not count as differing
  still do not differ while the lease is live (`ComparedStand`), in each case as
  long as none of the run's own writes was late.  The first is needed because a
  row is written long after its records were read; the second because a run that
  writes only what differed must be complete.  A late run does no harm to another one: it still needs to be the owner, and whoever is next
  reads everything after it.  From it: RepairComplete, SnapshotExact, and that
  every step is a step of `Ledger` or a stutter.  For the postings that is a fact
  about sums: when one record changes, the sum over all moves by the after less
  the before (`SumUpdate` of `TotalsProofs`), for each of the five rows and any
  status and amount.
* `Accounts`: `IInv` says that a login in the making has no profile and is no
  other request's (`Own`), that an update carries the next version of a profile
  that is as it was read while its version stands (`Read`), and that an e-mail
  has one login (`OneLogin`).  The first makes the undo harmless, the second makes
  the deny last.  From it: all five properties.
* `Totals`: a total is the sum itself, the fold of the community modules.  That
  a part can be split off or changed whatever order the fold adds in is proved by
  a smallest counterexample: the strict subsets of a finite set are well founded,
  which is a theorem of the library, and the smallest set on which two orders
  differ has none smaller.  No induction theorem with an operator as parameter is
  needed, and every other module's proofs cite the lemmas only.

The assumptions are the named ones beside the CONSTANTS: finite sets of ids,
natural bounds.  No theorem assumes anything of how old a reading of the clock is.

**Only model-checked:** the liveness property PostingResumes, since liveness and
ENABLED are out of the prover's reach.  The three properties of section 5 are
violated and so have no proof.

## 5. Disagreements found

1. `GangAssignment`: an assignment read before attendance was saved is written
   after it; attendance does not change the version `gang_allocate` checks.
2. `HeadcountSwitch`: `gang_configure` and named-worker attendance commit in
   either order, so attendance exists on or after the start date.
3. `StockIndent`: an issue does not raise the request's version, so a review that
   read the request before puts it back to approved and it can be issued again.

**Observed, without a run.**

* A worker with an advance who was neither allocated on the first of the month nor
  attended is not in the register (`workforce.py:79-81`), so the month does not
  recover his advance, while the comment at `workforce.py:297` says payroll
  snapshots recover them.  One read decides it, no interleaving.
* A repair's batch is conditioned on `:now`, a reading made before it was sent.  A
  pause of more than 600 seconds with a batch in hand, or clocks that far apart,
  let a batch be written after the lease lapsed and a posting came in between.
  Both repairs are modelled so: in `StockRepair` and `SpendingRepair` such batches
  commit, and RepairComplete without its condition on `late` fails in both.  The
  theorems say that this is the only way a repair goes wrong, and StaleBatchesOnly
  that comparing the revision in the batch too would close it for stock.
* A dry run compares the project's worker months after it has checked the
  revision (`reconciliation.py:50-62`), so it may report a difference that a
  posting made just then; SnapshotExact speaks of the records it has read.
* A request of an administrator who has just been disabled still commits:
  `active_identity` is asked once, at the start.
* An enabling that races a disabling, or fails halfway, leaves the table and
  Cognito different; the table decides (`authz.py:94`), and DenyLasts is about it.
* A crash between the invitation and the profile leaves a login without an
  account, whose e-mail cannot be invited again; a profile whose answer was lost
  loses its login (`lost` in `Accounts`), and its e-mail can then be invited a
  second time.
* A reversed payment keeps its claim on its reference (`storage.py:77-80`): the
  number cannot be used again.  The repository does not say whether it should.
* Site attendance is keyed by the UTC date of the call (`consolidated.py:322`): a
  check-in before midnight has no check-out after it.

## 6. Plan

| Step | Modules | State |
|---|---|---|
| A. gang money and registers | `GangPayroll` | checked, proved |
| B. paged registers and cleanup | `PayrollBuild`, `Register` | checked, proved, refinement proved |
| C. named workers | `WorkerPayroll` | checked, proved |
| D. stock | `StockLedger` | checked, proved; late batches included |
| E. finance and procurement | `Finance` | checked, proved |
| F. spending totals and their repair | `SpendingRepair`, `Ledger` | checked with liveness, proved, refinement proved |
| G. accounts and Cognito | `Accounts` | checked, proved |

To prove next: that `StockLedger` implements a ledger of rows as `SpendingRepair`
implements `Ledger`; and what an abstract account of
advances promises (given, cleared, recovered), which both `WorkerPayroll` and
`GangPayroll` should implement.

**Not modelled, and why:** role and project checks, request shapes, key names,
reports and pagination are pure functions of one request; documents and geofence
are I/O and floating point; deployment scripts are not part of the running
system, and `bootstrap_account.py` is an operator's tool that is run before there
is anyone to race with (it stores a platform profile without the organization
check).  Salary entries of staff are read from one item and take no part in a
race.  The material catalog, vendors, projects' other fields, work types and site
attendance store one conditional item each, whose only conflict is answered by
its own condition.  The approval index that `reconcile_reports` renews and the
directory index that `backfill_directory` fills are functions of the item they
are stored in.
