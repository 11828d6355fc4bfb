------------------------------ MODULE StockLedger ------------------------------
(***************************************************************************)
(* The warehouse: receipts, issues, returns and usages of a material, the  *)
(* balances and the total kept beside them by deltas, the material         *)
(* requests (indents) that issues fulfil, and the operator's repair of the *)
(* balances from the movement records, under a lease.                      *)
(*                                                                         *)
(* An API request reads, and then posts one conditional transaction.  A    *)
(* repair reads the records and the balances one after the other, and      *)
(* writes what differs in batches; CONTROL#STOCK carries its lease and the *)
(* revision that every movement raises.  :now and :until are readings of   *)
(* the caller's clock, MaxDelay behind the true time at most.              *)
(*                                                                         *)
(* One material is modelled: movements of two materials meet only in the   *)
(* control item.                                                           *)
(***************************************************************************)
EXTENDS Totals

CONSTANTS
  Central,      \* BALANCE#item of the central warehouse
  Total,        \* TOTAL#item of the organization
  Projects,
  RequestIds,   \* request ids a client may send, and send again
  Indents,      \* material requests
  Invocations,  \* Lambda invocations and repair runs
  MaxQty,       \* bound: quantity of a movement
  MaxVersion,   \* bound: writes of a material request
  Lease,        \* 600 seconds
  MaxDelay,     \* how old a clock reading is when the write takes place
  MaxTime,      \* bound: the clock stops there
  Drifts        \* what the central balance is off by before the first repair

ASSUME StockAssumption ==
  /\ Central \notin Projects /\ Total \notin Projects /\ Central # Total
  /\ Lease \in Nat /\ MaxTime \in Nat /\ MaxDelay \in Nat /\ Drifts \subseteq Nat
  /\ IsFiniteSet(RequestIds)

VARIABLES
  event,    \* WAREHOUSE-kind#..., by request id (REQUEST#warehouse-event#id)
  balance,  \* BALANCE#item of each partition, and TOTAL#item
  control,  \* CONTROL#STOCK
  indent,   \* MATERIAL#indent
  clock,
  job,      \* what each invocation does, and since when
  late      \* history: whether a run has extended its lease, or written under
            \* it, when it had passed

vars == << event, balance, control, indent, clock, job, late >>

-----------------------------------------------------------------------------
Places == {Central} \cup Projects
Rows == Places \cup {Total}
Times == 0..MaxTime

\* indent holds the request an issue fulfils; an event does not keep it
Events == [indent: {{}} \cup {{m} : m \in Indents}, qty: 1..MaxQty,
           movement: {"receipt", "issue", "return", "usage"}, place: Places]

NoLease == -1   \* an absent leaseUntil is earlier than every time
NoEvent == [qty |-> 0]
NoIndent == [status |-> "none", version |-> 0]
Idle == [op |-> "idle"]

Sampled(i, t) ==
  /\ t \in Times
  /\ job[i].since <= t /\ t <= clock /\ clock - MaxDelay <= t

Do(i, j) == job' = [job EXCEPT ![i] = j]

\* What a movement adds to the quantity of a row, and to a project's counters
Change(e, r) ==
  CASE e.movement = "receipt" /\ r \in {e.place, Total} -> e.qty
    [] e.movement = "issue" /\ r = Central -> 0 - e.qty
    [] e.movement = "issue" /\ r = e.place -> e.qty
    [] e.movement = "return" /\ r = Central -> e.qty
    [] e.movement = "usage" /\ r = Total -> 0 - e.qty
    [] e.movement \in {"return", "usage"} /\ r = e.place -> 0 - e.qty
    [] OTHER -> 0
Counted(e, kind, r) == IF e.movement = kind /\ r = e.place THEN e.qty ELSE 0

\* Where stock is required, and taken from
Source(e) == IF e.movement = "issue" THEN {Central}
             ELSE IF e.movement = "receipt" THEN {} ELSE {e.place}

-----------------------------------------------------------------------------
(* POST grn and issue-vouchers.                                             *)

NewEvent(e) ==
  /\ e.movement # "receipt" => e.place \in Projects
  /\ e.indent # {} => e.movement = "issue"

InStockSlip(p, n) == TRUE

\* quantity >= :required, read early and again the condition of the update
InStock(p, n) == balance[p].quantity >= n

\* Requests are answered from the event of their id; an issue may fulfil an
\* approved request of the destination, for its full quantity.
StartMovement(i, id, e) ==
  /\ job[i] = Idle
  /\ NewEvent(e) /\ event[id] = NoEvent
  /\ \A p \in Source(e) : InStock(p, e.qty)
  /\ \A m \in e.indent :
       /\ indent[m].status = "approved"
       /\ indent[m].project = e.place /\ indent[m].qty = e.qty
  /\ Do(i, [op |-> "move", id |-> id, event |-> e, since |-> clock])
  /\ UNCHANGED << event, balance, control, indent, clock, late >>

LeaseFreeSlip(t) == TRUE

\* attribute_not_exists(leaseUntil) OR leaseUntil < :now
LeaseFree(t) == control.until < t

RaisedSlip == control

\* ADD revision :one
Raised == [control EXCEPT !.revision = @ + 1]

CommitMovement(i, t) ==
  /\ job[i].op = "move" /\ Sampled(i, t)
  /\ LET e == job[i].event
     IN  /\ event[job[i].id] = NoEvent
         /\ \A p \in Source(e) : InStock(p, e.qty)
         /\ \A m \in e.indent : indent[m].status = "approved"
         /\ LeaseFree(t)
         /\ event' = [event EXCEPT ![job[i].id] = e]
         /\ balance' = [r \in Rows |->
              [quantity |-> balance[r].quantity + Change(e, r),
               used |-> balance[r].used + Counted(e, "usage", r),
               returned |-> balance[r].returned + Counted(e, "return", r)]]
         /\ indent' = [m \in Indents |->
              IF m \in e.indent THEN [indent[m] EXCEPT !.status = "issued"]
                                ELSE indent[m]]
         /\ control' = Raised
  /\ Do(i, Idle)
  /\ UNCHANGED << clock, late >>

-----------------------------------------------------------------------------
(* Material requests: created pending, reviewed by PUT {status}.            *)

CreateIndent(m, p, n) ==
  /\ indent[m] = NoIndent
  /\ indent' = [indent EXCEPT ![m] =
       [status |-> "pending", version |-> 1, project |-> p, qty |-> n]]
  /\ UNCHANGED << event, balance, control, clock, job, late >>

\* validate_transition; a status may also be sent again
Transition == { <<"pending", "approved">>, <<"pending", "rejected">>,
                <<"rejected", "pending">>, <<"pending", "pending">>,
                <<"approved", "approved">>, <<"rejected", "rejected">> }

StartReview(i, m, status) ==
  /\ job[i] = Idle
  /\ << indent[m].status, status >> \in Transition
  /\ indent[m].version < MaxVersion
  /\ Do(i, [op |-> "review", id |-> m, since |-> clock,
            after |-> [indent[m] EXCEPT !.status = status, !.version = @ + 1]])
  /\ UNCHANGED << event, balance, control, indent, clock, late >>

\* The whole record is put back on the version that was read
CommitReview(i) ==
  /\ job[i].op = "review"
  /\ LET r == job[i]
     IN  /\ indent[r.id].version = r.after.version - 1
         /\ indent' = [indent EXCEPT ![r.id] = r.after]
  /\ Do(i, Idle)
  /\ UNCHANGED << event, balance, control, clock, late >>

-----------------------------------------------------------------------------
(* reconcile_stock(identity, org, apply=True)                               *)

Posted == {id \in RequestIds : event[id] # NoEvent}
Moved(r) == [id \in Posted |-> Change(event[id], r)]
CountedIn(kind, r) == [id \in Posted |-> Counted(event[id], kind, r)]

\* The row that the movement records imply
LedgerRow(r) == [quantity |-> Sum(Posted, Moved(r)),
                 used |-> Sum(Posted, CountedIn("usage", r)),
                 returned |-> Sum(Posted, CountedIn("return", r))]

LeaseHeld(i, t) == control.owner = {i} /\ control.until >= t

StartRepair(i) ==
  /\ job[i] = Idle
  /\ Do(i, [op |-> "lease", revision |-> control.revision, since |-> clock])
  /\ UNCHANGED << event, balance, control, indent, clock, late >>

TakeLease(i, t) ==
  /\ job[i].op = "lease" /\ Sampled(i, t)
  /\ LeaseFree(t) /\ control.revision = job[i].revision
  /\ control' = [control EXCEPT !.owner = {i}, !.until = t + Lease]
  /\ Do(i, [op |-> "ledger", revision |-> job[i].revision, since |-> clock])
  /\ UNCHANGED << event, balance, indent, clock, late >>

ReadLedger(i) ==
  /\ job[i].op = "ledger"
  /\ Do(i, [op |-> "balance", revision |-> job[i].revision, since |-> clock,
            expected |-> [r \in Rows |-> LedgerRow(r)],
            left |-> Places, differs |-> {}])
  /\ UNCHANGED << event, balance, control, indent, clock, late >>

\* Adds r to the rows to repair when its balance is not the expected one
Compared(j, r) == IF balance[r] = j.expected[r] THEN j.differs
                                                ELSE j.differs \cup {r}

\* Reading the balances of a partition is followed by extending the lease
ReadBalance(i, p) ==
  /\ job[i].op = "balance" /\ p \in job[i].left
  /\ Do(i, [job[i] EXCEPT !.op = "extend", !.left = @ \ {p},
                          !.differs = Compared(job[i], p), !.since = clock])
  /\ UNCHANGED << event, balance, control, indent, clock, late >>

\* :now was read before the request was sent: the lease may have passed since
Passed == control.until < clock

ExtendLease(i, t) ==
  /\ job[i].op = "extend" /\ Sampled(i, t)
  /\ LeaseHeld(i, t)
  /\ control' = [control EXCEPT !.until = t + Lease]
  /\ Do(i, [job[i] EXCEPT !.op = "balance", !.since = clock])
  /\ late' = (late \/ Passed)
  /\ UNCHANGED << event, balance, indent, clock >>

ReadTotal(i) ==
  /\ job[i].op = "balance" /\ job[i].left = {}
  /\ Do(i, [job[i] EXCEPT !.op = "check", !.since = clock,
                          !.differs = Compared(job[i], Total)])
  /\ UNCHANGED << event, balance, control, indent, clock, late >>

UnmovedSlip(j) == TRUE

\* 'Stock changed during reconciliation' is not raised
Unmoved(j) == control.revision = j.revision

\* Nor is 'Movement records imply negative stock'
CheckRevision(i) ==
  /\ job[i].op = "check" /\ Unmoved(job[i])
  /\ \A r \in Rows : job[i].expected[r].quantity >= 0
  /\ Do(i, [job[i] EXCEPT !.op = "repair", !.since = clock])
  /\ UNCHANGED << event, balance, control, indent, clock, late >>

\* One batch, here of one row, replaces it and extends the lease
RepairRow(i, r, t) ==
  /\ job[i].op = "repair" /\ r \in job[i].differs /\ Sampled(i, t)
  /\ LeaseHeld(i, t)
  /\ balance' = [balance EXCEPT ![r] = job[i].expected[r]]
  /\ control' = [control EXCEPT !.until = t + Lease]
  /\ Do(i, [job[i] EXCEPT !.differs = @ \ {r}, !.since = clock])
  /\ late' = (late \/ Passed)
  /\ UNCHANGED << event, indent, clock >>

FreedSlip == [control EXCEPT !.owner = {}]

\* REMOVE leaseOwner, leaseUntil
Freed == [control EXCEPT !.owner = {}, !.until = NoLease]

\* finally: at the end or after an exception, the lease is given up if it is
\* still this run's
Release(i) ==
  /\ job[i].op \in {"ledger", "balance", "extend", "check", "repair"}
  /\ control' = IF control.owner = {i} THEN Freed ELSE control
  /\ Do(i, Idle)
  /\ UNCHANGED << event, balance, indent, clock, late >>

-----------------------------------------------------------------------------
\* A refused request or a crash: nothing is written, a lease held stays
Abandon(i) ==
  /\ job[i] # Idle
  /\ Do(i, Idle)
  /\ UNCHANGED << event, balance, control, indent, clock, late >>

Tick ==
  /\ clock < MaxTime
  /\ clock' = clock + 1
  /\ UNCHANGED << event, balance, control, indent, job, late >>

\* A balance edited or restored by hand is why the repair exists: the central
\* one may be more than the records imply.
Init ==
  /\ event = [id \in RequestIds |-> NoEvent]
  /\ \E n \in Drifts : balance = [r \in Rows |->
       [quantity |-> IF r = Central THEN n ELSE 0, used |-> 0, returned |-> 0]]
  /\ control = [owner |-> {}, until |-> NoLease, revision |-> 0]
  /\ indent = [m \in Indents |-> NoIndent]
  /\ clock = 0
  /\ job = [i \in Invocations |-> Idle]
  /\ late = FALSE

Movement(i) ==
  \/ \E id \in RequestIds, e \in Events : StartMovement(i, id, e)
  \/ \E t \in Times : CommitMovement(i, t)

Request(i) ==
  \/ \E m \in Indents, status \in {"pending", "approved", "rejected"} :
        StartReview(i, m, status)
  \/ CommitReview(i)

Repair(i) ==
  \/ StartRepair(i)
  \/ \E t \in Times : TakeLease(i, t)
  \/ ReadLedger(i)
  \/ \E p \in Places : ReadBalance(i, p)
  \/ \E t \in Times : ExtendLease(i, t)
  \/ ReadTotal(i)
  \/ CheckRevision(i)
  \/ \E r \in Rows, t \in Times : RepairRow(i, r, t)
  \/ Release(i)

Next ==
  \/ \E i \in Invocations : Movement(i) \/ Request(i) \/ Repair(i) \/ Abandon(i)
  \/ \E m \in Indents, p \in Projects, n \in 1..MaxQty : CreateIndent(m, p, n)
  \/ Tick

Spec == Init /\ [][Next]_vars
-----------------------------------------------------------------------------
(* Properties.                                                             *)

Quantities == [quantity: Int, used: Nat, returned: Nat]
Requested == [status: {"pending", "approved", "rejected", "issued"},
              version: Nat, project: Projects, qty: 1..MaxQty]

\* Movements, balances, the control item and requests have their types; the
\* lease's owner and its end are there together.
TypeOK ==
  /\ event \in [RequestIds -> {NoEvent} \cup Events]
  /\ balance \in [Rows -> Quantities]
  /\ control \in [owner: SUBSET Invocations, until: {NoLease} \cup Nat,
                 revision: Nat]
  /\ control.owner = {} <=> control.until = NoLease
  /\ indent \in [Indents -> {NoIndent} \cup Requested]
  /\ clock \in Times /\ late \in BOOLEAN

\* Movements that were checked against the same stock before any of them was
\* posted, a retry among them, never take a balance below zero; nor does a
\* repair.
StockCovered == \A p \in Places : balance[p].quantity >= 0

\* By how much a row differs from the movement records
Drift(r) ==
  LET e == LedgerRow(r)
  IN  << balance[r].quantity - e.quantity, balance[r].used - e.used,
         balance[r].returned - e.returned >>

\* A step leaves a row as far from its records as it was, or sets it right
Steady(r) == \/ UNCHANGED << event, balance >>
             \/ Drift(r)' \in {Drift(r), << 0, 0, 0 >>}

\* Every movement moves a row by exactly what its record says, once, and a
\* repair sets a row to what the records imply at that moment, although it
\* read them long before: a row never comes to differ from its records in
\* another way than it did, until a run writes under a lease that has passed.
\* "A repair lease blocks posting while rebuilding derived totals."
DriftOnlyRepaired ==
  [][~late' => \A r \in Rows : Steady(r)]_vars

\* A repair that has written its last row under its lease leaves none that
\* differs from the records, unless a run wrote under a lease that had passed.
RepairComplete ==
  \A i \in Invocations :
    ~late /\ job[i].op = "repair" /\ job[i].differs = {} /\ LeaseHeld(i, clock) =>
      \A r \in Rows : Drift(r) = << 0, 0, 0 >>

\* However late a batch comes, what it writes is what the records imply at that
\* moment unless a movement was posted since its run read the revision: the
\* lease may have passed and another run taken it, a row is off in a new way only
\* where the revision shows that this batch is stale.
OnlyStaleBatches ==
  [][\A r \in Rows : ~Steady(r) =>
       \E i \in Invocations :
         job[i].op = "repair" /\ job'[i] # job[i] /\ ~Unmoved(job[i])]_vars

\* "Approved records are immutable", and an issued one is not approved again: a
\* material request is fulfilled by one issue of its full quantity.
IssuedStays ==
  [][\A m \in Indents : indent[m].status = "issued" =>
                           indent'[m].status = "issued"]_vars
-----------------------------------------------------------------------------
(* The inductive invariant of TypeOK and StockCovered.                      *)

\* A run that has read the ledger knows whole numbers, and writes no negative
\* quantity
Comparing == {"balance", "extend", "check", "repair"}
Comparisons == [op: Comparing, revision: Nat, since: Times,
                expected: [Rows -> Quantities], left: SUBSET Places,
                differs: SUBSET Rows]
JobOK(j) ==
  /\ j.op = "move" => j.id \in RequestIds /\ j.event \in Events /\ NewEvent(j.event)
  /\ j.op = "review" => j.id \in Indents /\ j.after \in Requested
  /\ j.op \in {"lease", "ledger"} => j.revision \in Nat
  /\ j.op \in Comparing => j \in Comparisons
  /\ j.op \in {"check", "repair"} => j.left = {}
  /\ j.op = "repair" => \A r \in Rows : j.expected[r].quantity >= 0

StockInv ==
  /\ TypeOK /\ StockCovered
  /\ DOMAIN job = Invocations /\ \A i \in Invocations : JobOK(job[i])
-----------------------------------------------------------------------------
(* The inductive invariants of DriftOnlyRepaired and RepairComplete, and of *)
(* OnlyStaleBatches.                                                        *)

\* The rows a run has compared with what the records imply
ComparedRows(j) == IF j.op \in {"check", "repair"} THEN Rows ELSE Places \ j.left

\* As long as its lease has not passed, the records imply what a run has read,
\* and the rows it does not count as differing still do not differ.
ReadStands(i, j) ==
  j.op \in Comparing /\ LeaseHeld(i, clock) =>
    /\ \A r \in Rows : j.expected[r] = LedgerRow(r)
    /\ \A r \in ComparedRows(j) \ j.differs : balance[r] = j.expected[r]

RepairInv == ~late => \A i \in Invocations : ReadStands(i, job[i])

\* As long as the revision has not moved, the records imply what a run has read.
ReadUnmoved(j) ==
  /\ j.op \in {"lease", "ledger"} \cup Comparing => j.revision <= control.revision
  /\ j.op \in Comparing /\ Unmoved(j) => \A r \in Rows : j.expected[r] = LedgerRow(r)

RevisionInv == \A i \in Invocations : ReadUnmoved(job[i])
=============================================================================
