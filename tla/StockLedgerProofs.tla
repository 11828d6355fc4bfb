--------------------------- MODULE StockLedgerProofs ---------------------------
(* Stock never below zero; movements and repairs that leave balances true to  *)
(* the movement records until a run writes under a lease that has passed; and *)
(* what a late batch can still do.  For any requests, projects, runs, leases  *)
(* and readings of the clock.                                                 *)
EXTENDS StockLedger, TotalsProofs

LEMMA EventFields ==
  /\ NoEvent \notin Events
  /\ \A e \in Events : /\ e.qty \in Nat /\ e.place \in Places
                       /\ e.indent \subseteq Indents
<1>1. \A e \in Events : "place" \in DOMAIN e
  BY DEF Events
<1>2. "place" \notin DOMAIN NoEvent
  BY DEF NoEvent
<1>3. NoEvent \notin Events
  BY <1>1, <1>2
<1> QED
  BY <1>3 DEF Events

\* A movement changes whole numbers, and counters upwards.
LEMMA ChangeTypes ==
  ASSUME NEW e \in Events, NEW r
  PROVE  /\ Change(e, r) \in Int
         /\ Counted(e, "usage", r) \in Nat /\ Counted(e, "return", r) \in Nat
<1>1. e.qty \in Nat /\ 0 - e.qty \in Int
  BY EventFields
<1>2. Change(e, r) \in {e.qty, 0 - e.qty, 0}
  BY DEF Change
<1> QED
  BY <1>1, <1>2 DEF Counted

LEMMA PostedEvents ==
  ASSUME event \in [RequestIds -> {NoEvent} \cup Events]
  PROVE  /\ IsFiniteSet(Posted) /\ Posted \subseteq RequestIds
         /\ \A id \in Posted : event[id] \in Events
BY StockAssumption, FS_Subset DEF Posted

\* What the records imply has the type of a row.
LEMMA LedgerTyped ==
  ASSUME event \in [RequestIds -> {NoEvent} \cup Events], NEW r
  PROVE  LedgerRow(r) \in Quantities
<1>1. IsFiniteSet(Posted) /\ \A id \in Posted : event[id] \in Events
  BY PostedEvents
<1>2. \A id \in Posted : Moved(r)[id] \in Int
  BY <1>1, ChangeTypes DEF Moved
<1>3. \A id \in Posted : CountedIn("usage", r)[id] \in Nat
                         /\ CountedIn("return", r)[id] \in Nat
  BY <1>1, ChangeTypes DEF CountedIn
<1>4. Sum(Posted, Moved(r)) \in Int
  BY <1>1, <1>2, SumType
<1>5. Sum(Posted, CountedIn("usage", r)) \in Nat
      /\ Sum(Posted, CountedIn("return", r)) \in Nat
  BY <1>1, <1>3, SumType
<1> QED
  BY <1>4, <1>5 DEF LedgerRow, Quantities

\* One posted movement adds its own change to what the records imply.
LEMMA LedgerPosts ==
  ASSUME event \in [RequestIds -> {NoEvent} \cup Events],
         NEW id \in RequestIds, event[id] = NoEvent, NEW e \in Events,
         event' = [event EXCEPT ![id] = e], NEW r
  PROVE  LedgerRow(r)' =
           [quantity |-> LedgerRow(r).quantity + Change(e, r),
            used |-> LedgerRow(r).used + Counted(e, "usage", r),
            returned |-> LedgerRow(r).returned + Counted(e, "return", r)]
<1>1. /\ IsFiniteSet(Posted) /\ \A x \in Posted : event[x] \in Events
      /\ id \notin Posted
  BY PostedEvents DEF Posted
<1>2. \A x \in RequestIds : event'[x] = IF x = id THEN e ELSE event[x]
  OBVIOUS
<1>3. PICK S : S = Posted
  OBVIOUS
<1>4. Posted' = S \cup {id}
  BY <1>2, <1>3, EventFields DEF Posted
<1>5. /\ \A x \in S : Moved(r)'[x] = Moved(r)[x] /\ Moved(r)[x] \in Int
      /\ Moved(r)'[id] = Change(e, r) /\ Change(e, r) \in Int
  <2>1. \A x \in S : Moved(r)'[x] = Moved(r)[x]
    BY <1>1, <1>2, <1>3, <1>4, PostedEvents DEF Moved
  <2>2. \A x \in S : Moved(r)[x] \in Int
    BY <1>1, <1>3, ChangeTypes DEF Moved
  <2>3. Moved(r)'[id] = Change(e, r)
    BY <1>2, <1>4 DEF Moved
  <2> QED
    BY <2>1, <2>2, <2>3, ChangeTypes
<1>6. ASSUME NEW kind \in {"usage", "return"}
      PROVE  /\ \A x \in S : CountedIn(kind, r)'[x] = CountedIn(kind, r)[x]
                             /\ CountedIn(kind, r)[x] \in Int
             /\ CountedIn(kind, r)'[id] = Counted(e, kind, r)
             /\ Counted(e, kind, r) \in Int
  <2>1. \A x \in S : CountedIn(kind, r)'[x] = CountedIn(kind, r)[x]
    BY <1>1, <1>2, <1>3, <1>4, PostedEvents DEF CountedIn
  <2>2. \A x \in S : CountedIn(kind, r)[x] \in Int
    BY <1>1, <1>3, ChangeTypes DEF CountedIn
  <2>3. CountedIn(kind, r)'[id] = Counted(e, kind, r)
    BY <1>2, <1>4 DEF CountedIn
  <2>4. Counted(e, kind, r) \in Int
    BY ChangeTypes
  <2> QED
    BY <2>1, <2>2, <2>3, <2>4
<1>7. Sum(S \cup {id}, Moved(r)') = Sum(S, Moved(r)) + Change(e, r)
  <2>1. PICK f : f = Moved(r)
    OBVIOUS
  <2>2. PICK h : h = Moved(r)'
    OBVIOUS
  <2>3. /\ IsFiniteSet(S) /\ id \notin S /\ h[id] \in Int
        /\ \A x \in S : h[x] = f[x] /\ f[x] \in Int
    BY <1>1, <1>3, <1>5, <2>1, <2>2
  <2>4. Sum(S \cup {id}, h) = Sum(S, f) + h[id]
    BY <2>3, SumAdd
  <2> QED
    BY <1>5, <2>1, <2>2, <2>4
<1>8. ASSUME NEW kind \in {"usage", "return"}
      PROVE  Sum(S \cup {id}, CountedIn(kind, r)')
               = Sum(S, CountedIn(kind, r)) + Counted(e, kind, r)
  <2>1. PICK f : f = CountedIn(kind, r)
    OBVIOUS
  <2>2. PICK h : h = CountedIn(kind, r)'
    OBVIOUS
  <2>3. /\ IsFiniteSet(S) /\ id \notin S /\ h[id] \in Int
        /\ \A x \in S : h[x] = f[x] /\ f[x] \in Int
    BY <1>1, <1>3, <1>6, <2>1, <2>2
  <2>4. Sum(S \cup {id}, h) = Sum(S, f) + h[id]
    BY <2>3, SumAdd
  <2> QED
    BY <1>6, <2>1, <2>2, <2>4
<1>9. LedgerRow(r)' = [quantity |-> Sum(S \cup {id}, Moved(r)'),
                       used |-> Sum(S \cup {id}, CountedIn("usage", r)'),
                       returned |-> Sum(S \cup {id}, CountedIn("return", r)')]
  BY <1>4 DEF LedgerRow
<1>10. LedgerRow(r) = [quantity |-> Sum(S, Moved(r)),
                       used |-> Sum(S, CountedIn("usage", r)),
                       returned |-> Sum(S, CountedIn("return", r))]
  BY <1>3 DEF LedgerRow
<1> QED
  BY <1>7, <1>8, <1>9, <1>10
-----------------------------------------------------------------------------
(* Types, and stock never below zero.                                       *)

Controls == [owner: SUBSET Invocations, until: {NoLease} \cup Nat, revision: Nat]

\* One invocation goes on.
LEMMA JobStep ==
  ASSUME StockInv, NEW i \in Invocations, NEW j, Do(i, j)
  PROVE  /\ DOMAIN job' = Invocations
         /\ \A k \in Invocations : job'[k] = IF k = i THEN j ELSE job[k]
BY DEF StockInv, Do

LEMMA StoreStep ==
  ASSUME StockInv, NEW i \in Invocations, NEW j, JobOK(j), Do(i, j),
         TypeOK', StockCovered'
  PROVE  StockInv'
<1>1. DOMAIN job' = Invocations /\ \A k \in Invocations : JobOK(job'[k])
  BY JobStep DEF StockInv
<1>2. \A k \in Invocations : JobOK(job[k])'
  BY <1>1 DEF JobOK
<1> QED
  BY <1>1, <1>2 DEF StockInv

\* A step that changes at most the control item and what an invocation does.
LEMMA ControlStep ==
  ASSUME StockInv, NEW i \in Invocations, NEW j, JobOK(j), Do(i, j),
         UNCHANGED << event, balance, indent, clock >>, late' \in BOOLEAN,
         control' \in Controls, control'.owner = {} <=> control'.until = NoLease
  PROVE  StockInv'
<1>1. TypeOK' /\ StockCovered'
  BY DEF StockInv, TypeOK, StockCovered, Controls
<1> QED
  BY <1>1, StoreStep

LEMMA ReadStep ==
  ASSUME StockInv, NEW i \in Invocations, NEW j, JobOK(j), Do(i, j),
         UNCHANGED << event, balance, control, indent, clock, late >>
  PROVE  StockInv'
<1>1. control' \in Controls /\ (control'.owner = {} <=> control'.until = NoLease)
      /\ late' \in BOOLEAN
  BY DEF StockInv, TypeOK, Controls
<1> QED
  BY <1>1, ControlStep

LEMMA IdleJob == JobOK(Idle)
BY DEF JobOK, Idle, Comparing

LEMMA Distinct ==
  /\ Central \in Places /\ Total \notin Places /\ Central \notin Projects
  /\ Places \subseteq Rows /\ Total \in Rows /\ Projects \subseteq Places
  /\ Rows \ {Total} = Places
BY StockAssumption DEF Places, Rows

LEMMA StartMovementStep ==
  ASSUME StockInv, NEW i \in Invocations, NEW id \in RequestIds, NEW e \in Events,
         StartMovement(i, id, e)
  PROVE  StockInv'
<1> DEFINE j == [op |-> "move", id |-> id, event |-> e, since |-> clock]
<1>1. Do(i, j) /\ NewEvent(e)
      /\ UNCHANGED << event, balance, control, indent, clock, late >>
  BY DEF StartMovement
<1>2. JobOK(j)
  BY <1>1 DEF JobOK, Comparing
<1> HIDE DEF j
<1> QED
  BY <1>1, <1>2, ReadStep

\* Stock is required where a movement takes it, in the step that takes it.
LEMMA CommitMovementStep ==
  ASSUME StockInv, NEW i \in Invocations, NEW t \in Times, CommitMovement(i, t)
  PROVE  StockInv'
<1> DEFINE e == job[i].event
           id == job[i].id
<1>1. /\ job[i].op = "move" /\ event[id] = NoEvent
      /\ \A p \in Source(e) : balance[p].quantity >= e.qty
      /\ \A m \in e.indent : indent[m].status = "approved"
      /\ event' = [event EXCEPT ![id] = e]
      /\ balance' = [r \in Rows |->
           [quantity |-> balance[r].quantity + Change(e, r),
            used |-> balance[r].used + Counted(e, "usage", r),
            returned |-> balance[r].returned + Counted(e, "return", r)]]
      /\ indent' = [m \in Indents |->
           IF m \in e.indent THEN [indent[m] EXCEPT !.status = "issued"]
                             ELSE indent[m]]
      /\ control' = [control EXCEPT !.revision = @ + 1]
      /\ Do(i, Idle) /\ UNCHANGED << clock, late >>
  BY DEF CommitMovement, InStock, Raised
<1>2. TypeOK /\ StockCovered
  BY DEF StockInv
<1>3. id \in RequestIds /\ e \in Events /\ NewEvent(e)
  BY <1>1 DEF StockInv, JobOK
<1> HIDE DEF e, id
<1>4. event' \in [RequestIds -> {NoEvent} \cup Events]
  BY <1>1, <1>2, <1>3 DEF TypeOK
<1>5. ASSUME NEW r \in Rows
      PROVE  /\ balance'[r] \in Quantities
             /\ balance'[r].quantity = balance[r].quantity + Change(e, r)
  <2>1. balance[r].quantity \in Int /\ balance[r].used \in Nat
        /\ balance[r].returned \in Nat
    BY <1>2 DEF TypeOK, Quantities
  <2> QED
    BY <1>1, <1>3, <2>1, ChangeTypes DEF Quantities
<1>6. balance' \in [Rows -> Quantities]
  BY <1>1, <1>5
<1>7. control' \in Controls /\ (control'.owner = {} <=> control'.until = NoLease)
  BY <1>1, <1>2 DEF TypeOK, Controls
<1>8. indent' \in [Indents -> {NoIndent} \cup Requested]
  <2>1. ASSUME NEW m \in Indents PROVE indent'[m] \in {NoIndent} \cup Requested
    <3>1. CASE m \in e.indent
      <4>1. indent[m] \in Requested
        BY <1>1, <1>2, <3>1 DEF TypeOK, NoIndent
      <4>2. indent'[m] = [indent[m] EXCEPT !.status = "issued"]
        BY <1>1, <3>1
      <4> QED
        BY <4>1, <4>2 DEF Requested
    <3>2. CASE m \notin e.indent
      BY <1>1, <1>2, <3>2 DEF TypeOK
    <3> QED
      BY <3>1, <3>2
  <2> QED
    BY <1>1, <2>1
<1>9. TypeOK'
  BY <1>1, <1>2, <1>4, <1>6, <1>7, <1>8 DEF TypeOK, Controls
<1>10. ASSUME NEW p \in Places PROVE balance'[p].quantity >= 0
  <2>1. /\ p \in Rows /\ p # Total /\ e.qty \in Nat
        /\ balance[p].quantity \in Int /\ balance[p].quantity >= 0
    BY <1>2, <1>3, Distinct, EventFields DEF TypeOK, Quantities, StockCovered
  <2>2. CASE p \in Source(e)
    <3>1. balance[p].quantity >= e.qty
      BY <1>1, <2>2
    <3>2. Change(e, p) \in {e.qty, 0 - e.qty, 0}
      BY DEF Change
    <3> QED
      BY <1>5, <2>1, <3>1, <3>2
  <2>3. CASE p \notin Source(e)
    <3>1. e.movement \in {"receipt", "issue", "return", "usage"}
      BY <1>3 DEF Events
    <3>2. Change(e, p) \in {e.qty, 0}
      BY <2>1, <2>3, <3>1 DEF Change, Source
    <3> QED
      BY <1>5, <2>1, <3>2
  <2> QED
    BY <2>2, <2>3
<1>11. StockCovered'
  BY <1>10 DEF StockCovered
<1> QED
  BY <1>1, <1>9, <1>11, IdleJob, StoreStep

\* A step that changes at most the material requests.
LEMMA IndentStep ==
  ASSUME StockInv, UNCHANGED << event, balance, control, clock, late >>,
         indent' \in [Indents -> {NoIndent} \cup Requested]
  PROVE  TypeOK' /\ StockCovered'
BY DEF StockInv, TypeOK, StockCovered

LEMMA CreateIndentStep ==
  ASSUME StockInv, NEW m \in Indents, NEW p \in Projects, NEW n \in 1..MaxQty,
         CreateIndent(m, p, n)
  PROVE  StockInv'
<1> DEFINE x == [status |-> "pending", version |-> 1, project |-> p, qty |-> n]
<1>1. indent' = [indent EXCEPT ![m] = x]
      /\ UNCHANGED << event, balance, control, clock, job, late >>
  BY DEF CreateIndent
<1>2. x \in Requested
  BY DEF Requested
<1> HIDE DEF x
<1>3. indent' \in [Indents -> {NoIndent} \cup Requested]
  BY <1>1, <1>2 DEF StockInv, TypeOK
<1>4. TypeOK' /\ StockCovered'
  BY <1>1, <1>3, IndentStep
<1>5. \A k \in Invocations : JobOK(job[k])'
  BY <1>1 DEF StockInv, JobOK
<1> QED
  BY <1>1, <1>4, <1>5 DEF StockInv

LEMMA StartReviewStep ==
  ASSUME StockInv, NEW i \in Invocations, NEW m \in Indents,
         NEW status \in {"pending", "approved", "rejected"},
         StartReview(i, m, status)
  PROVE  StockInv'
<1> DEFINE after == [indent[m] EXCEPT !.status = status, !.version = @ + 1]
           j == [op |-> "review", id |-> m, since |-> clock, after |-> after]
<1>1. Do(i, j) /\ << indent[m].status, status >> \in Transition
      /\ UNCHANGED << event, balance, control, indent, clock, late >>
  BY DEF StartReview
<1>2. indent[m] \in Requested
  BY <1>1 DEF Transition, StockInv, TypeOK, NoIndent
<1>3. after \in Requested
  <2>1. PICK x \in Requested : x = indent[m]
    BY <1>2
  <2>2. x.version + 1 \in Nat /\ after = [x EXCEPT !.status = status,
                                                !.version = x.version + 1]
    BY <2>1 DEF Requested
  <2> HIDE DEF after
  <2> QED
    BY <2>1, <2>2 DEF Requested
<1> HIDE DEF after
<1>4. JobOK(j)
  BY <1>3 DEF JobOK, Comparing
<1> HIDE DEF j
<1> QED
  BY <1>1, <1>4, ReadStep

LEMMA CommitReviewStep ==
  ASSUME StockInv, NEW i \in Invocations, CommitReview(i)
  PROVE  StockInv'
<1>1. job[i].op = "review" /\ indent' = [indent EXCEPT ![job[i].id] = job[i].after]
      /\ Do(i, Idle) /\ UNCHANGED << event, balance, control, clock, late >>
  BY DEF CommitReview
<1>2. job[i].id \in Indents /\ job[i].after \in Requested
  BY <1>1 DEF StockInv, JobOK
<1>3. indent' \in [Indents -> {NoIndent} \cup Requested]
  BY <1>1, <1>2 DEF StockInv, TypeOK
<1>4. TypeOK' /\ StockCovered'
  BY <1>1, <1>3, IndentStep
<1> QED
  BY <1>1, <1>4, IdleJob, StoreStep

LEMMA StartRepairStep ==
  ASSUME StockInv, NEW i \in Invocations, StartRepair(i)
  PROVE  StockInv'
<1> DEFINE j == [op |-> "lease", revision |-> control.revision, since |-> clock]
<1>1. Do(i, j) /\ UNCHANGED << event, balance, control, indent, clock, late >>
  BY DEF StartRepair
<1>2. JobOK(j)
  BY DEF JobOK, Comparing, StockInv, TypeOK
<1> HIDE DEF j
<1> QED
  BY <1>1, <1>2, ReadStep

\* A lease that is taken or extended.
LEMMA Leased ==
  ASSUME StockInv, NEW t \in Times, NEW O \in SUBSET Invocations, O # {},
         \/ control' = [control EXCEPT !.owner = O, !.until = t + Lease]
         \/ control' = [control EXCEPT !.until = t + Lease] /\ control.owner = O
  PROVE  /\ control' \in Controls /\ control'.owner = O
         /\ control'.until = t + Lease /\ control'.revision = control.revision
         /\ (control'.owner = {} <=> control'.until = NoLease)
<1>1. t + Lease \in Nat /\ t + Lease # NoLease
  BY StockAssumption DEF Times, NoLease
<1> QED
  BY <1>1 DEF StockInv, TypeOK, Controls

LEMMA TakeLeaseStep ==
  ASSUME StockInv, NEW i \in Invocations, NEW t \in Times, TakeLease(i, t)
  PROVE  StockInv'
<1> DEFINE j == [op |-> "ledger", revision |-> job[i].revision, since |-> clock]
<1>1. /\ job[i].op = "lease" /\ Do(i, j)
      /\ control' = [control EXCEPT !.owner = {i}, !.until = t + Lease]
      /\ late' \in BOOLEAN /\ UNCHANGED << event, balance, indent, clock >>
  BY DEF TakeLease, StockInv, TypeOK
<1>2. job[i].revision \in Nat
  BY <1>1 DEF StockInv, JobOK
<1>3. JobOK(j)
  BY <1>2 DEF JobOK, Comparing
<1>4. control' \in Controls /\ (control'.owner = {} <=> control'.until = NoLease)
  <2>1. {i} \in SUBSET Invocations /\ {i} # {}
    OBVIOUS
  <2> QED
    BY <1>1, <2>1, Leased
<1> HIDE DEF j
<1> QED
  BY <1>1, <1>3, <1>4, ControlStep

LEMMA ReadLedgerStep ==
  ASSUME StockInv, NEW i \in Invocations, ReadLedger(i)
  PROVE  StockInv'
<1> DEFINE expected == [r \in Rows |-> LedgerRow(r)]
           j == [op |-> "balance", revision |-> job[i].revision, since |-> clock,
                 expected |-> expected, left |-> Places, differs |-> {}]
<1>1. job[i].op = "ledger" /\ Do(i, j)
      /\ UNCHANGED << event, balance, control, indent, clock, late >>
  BY DEF ReadLedger
<1>2. job[i].revision \in Nat /\ clock \in Times
  BY <1>1 DEF StockInv, JobOK, TypeOK
<1>3. expected \in [Rows -> Quantities]
  BY LedgerTyped DEF StockInv, TypeOK
<1> HIDE DEF expected
<1>4. j \in Comparisons /\ j.op = "balance"
  BY <1>2, <1>3 DEF Comparisons, Comparing
<1> HIDE DEF j
<1>5. JobOK(j)
  BY <1>4 DEF JobOK
<1> QED
  BY <1>1, <1>5, ReadStep

\* A run that compares, at its start, and what it is afterwards.
LEMMA Compares ==
  ASSUME StockInv, NEW i \in Invocations, job[i].op \in Comparing
  PROVE  /\ job[i] \in Comparisons /\ clock \in Times
         /\ job[i].expected \in [Rows -> Quantities]
         /\ job[i].left \subseteq Places /\ job[i].differs \subseteq Rows
         /\ job[i].op \in {"check", "repair"} => job[i].left = {}
BY DEF StockInv, JobOK, Comparisons, TypeOK

LEMMA ReadBalanceStep ==
  ASSUME StockInv, NEW i \in Invocations, NEW p \in Places, ReadBalance(i, p)
  PROVE  StockInv'
<1> DEFINE j == [job[i] EXCEPT !.op = "extend", !.left = @ \ {p},
                               !.differs = Compared(job[i], p), !.since = clock]
<1>1. job[i].op = "balance" /\ Do(i, j)
      /\ UNCHANGED << event, balance, control, indent, clock, late >>
  BY DEF ReadBalance
<1>2. Compared(job[i], p) \subseteq Rows
  BY <1>1, Compares, Distinct DEF Comparing, Compared
<1>3. j \in Comparisons /\ j.op = "extend"
  BY <1>1, <1>2, Compares DEF Comparisons, Comparing
<1> HIDE DEF j
<1>4. JobOK(j)
  BY <1>3 DEF JobOK
<1> QED
  BY <1>1, <1>4, ReadStep

LEMMA ExtendLeaseStep ==
  ASSUME StockInv, NEW i \in Invocations, NEW t \in Times, ExtendLease(i, t)
  PROVE  StockInv'
<1> DEFINE j == [job[i] EXCEPT !.op = "balance", !.since = clock]
<1>1. /\ job[i].op = "extend" /\ Do(i, j) /\ control.owner = {i}
      /\ control' = [control EXCEPT !.until = t + Lease]
      /\ late' \in BOOLEAN /\ UNCHANGED << event, balance, indent, clock >>
  BY DEF ExtendLease, LeaseHeld
<1>2. j \in Comparisons /\ j.op = "balance"
  BY <1>1, Compares DEF Comparisons, Comparing
<1> HIDE DEF j
<1>3. JobOK(j)
  BY <1>2 DEF JobOK
<1>4. control' \in Controls /\ (control'.owner = {} <=> control'.until = NoLease)
  <2>1. {i} \in SUBSET Invocations /\ {i} # {}
    OBVIOUS
  <2> QED
    BY <1>1, <2>1, Leased
<1> QED
  BY <1>1, <1>3, <1>4, ControlStep

LEMMA ReadTotalStep ==
  ASSUME StockInv, NEW i \in Invocations, ReadTotal(i)
  PROVE  StockInv'
<1> DEFINE j == [job[i] EXCEPT !.op = "check", !.since = clock,
                               !.differs = Compared(job[i], Total)]
<1>1. job[i].op = "balance" /\ job[i].left = {} /\ Do(i, j)
      /\ UNCHANGED << event, balance, control, indent, clock, late >>
  BY DEF ReadTotal
<1>2. Compared(job[i], Total) \subseteq Rows
  BY <1>1, Compares, Distinct DEF Comparing, Compared
<1>3. j \in Comparisons /\ j.op = "check" /\ j.left = {}
  BY <1>1, <1>2, Compares DEF Comparisons, Comparing
<1> HIDE DEF j
<1>4. JobOK(j)
  BY <1>3 DEF JobOK
<1> QED
  BY <1>1, <1>4, ReadStep

LEMMA CheckRevisionStep ==
  ASSUME StockInv, NEW i \in Invocations, CheckRevision(i)
  PROVE  StockInv'
<1> DEFINE j == [job[i] EXCEPT !.op = "repair", !.since = clock]
<1>1. job[i].op = "check" /\ Do(i, j)
      /\ (\A r \in Rows : job[i].expected[r].quantity >= 0)
      /\ UNCHANGED << event, balance, control, indent, clock, late >>
  BY DEF CheckRevision
<1>2. /\ j \in Comparisons /\ j.op = "repair" /\ j.left = {}
      /\ j.expected = job[i].expected
  BY <1>1, Compares DEF Comparisons, Comparing
<1> HIDE DEF j
<1>3. JobOK(j)
  BY <1>1, <1>2 DEF JobOK
<1> QED
  BY <1>1, <1>3, ReadStep

\* A repair writes no negative quantity.
LEMMA RepairRowStep ==
  ASSUME StockInv, NEW i \in Invocations, NEW r \in Rows, NEW t \in Times,
         RepairRow(i, r, t)
  PROVE  StockInv'
<1> DEFINE j == [job[i] EXCEPT !.differs = @ \ {r}, !.since = clock]
           x == job[i].expected[r]
<1>1. /\ job[i].op = "repair" /\ Do(i, j) /\ control.owner = {i}
      /\ balance' = [balance EXCEPT ![r] = x]
      /\ control' = [control EXCEPT !.until = t + Lease]
      /\ late' \in BOOLEAN /\ UNCHANGED << event, indent, clock >>
  BY DEF RepairRow, LeaseHeld
<1>2. /\ j \in Comparisons /\ j.op = "repair" /\ j.left = {}
      /\ j.expected = job[i].expected
  BY <1>1, Compares DEF Comparisons, Comparing
<1>3. /\ \A s \in Rows : job[i].expected[s].quantity >= 0
      /\ x \in Quantities
  BY <1>1, Compares DEF StockInv, JobOK, Comparing
<1> HIDE DEF j
<1>4. JobOK(j)
  BY <1>2, <1>3 DEF JobOK
<1>5. x.quantity >= 0
  BY <1>3
<1> HIDE DEF x
<1>6. control' \in Controls /\ (control'.owner = {} <=> control'.until = NoLease)
  BY <1>1, Leased
<1>7. TypeOK'
  BY <1>1, <1>3, <1>6 DEF StockInv, TypeOK, Controls
<1>8. StockCovered'
  BY <1>1, <1>5, Distinct DEF StockInv, TypeOK, StockCovered
<1> QED
  BY <1>1, <1>4, <1>7, <1>8, StoreStep

LEMMA ReleaseStep ==
  ASSUME StockInv, NEW i \in Invocations, Release(i)
  PROVE  StockInv'
<1>1. /\ Do(i, Idle) /\ UNCHANGED << event, balance, indent, clock >>
      /\ control' = IF control.owner = {i} THEN Freed ELSE control
      /\ late' \in BOOLEAN
  BY DEF Release, StockInv, TypeOK
<1>2. control' \in Controls /\ (control'.owner = {} <=> control'.until = NoLease)
  BY <1>1 DEF StockInv, TypeOK, Controls, Freed
<1> QED
  BY <1>1, <1>2, IdleJob, ControlStep

LEMMA InitStock == Init => StockInv
<1> SUFFICES ASSUME Init PROVE StockInv
  OBVIOUS
<1>1. PICK n \in Drifts : balance = [r \in Rows |->
        [quantity |-> IF r = Central THEN n ELSE 0, used |-> 0, returned |-> 0]]
  BY DEF Init
<1>2. n \in Nat
  BY StockAssumption
<1>3. balance \in [Rows -> Quantities] /\ StockCovered
  BY <1>1, <1>2, Distinct DEF Quantities, StockCovered
<1>4. clock \in Times
  BY StockAssumption DEF Init, Times
<1>5. TypeOK
  BY <1>3, <1>4 DEF Init, TypeOK
<1>6. DOMAIN job = Invocations /\ \A i \in Invocations : JobOK(job[i])
  BY IdleJob DEF Init
<1> QED
  BY <1>3, <1>5, <1>6 DEF StockInv

LEMMA NextStock == StockInv /\ [Next]_vars => StockInv'
<1> SUFFICES ASSUME StockInv, [Next]_vars PROVE StockInv'
  OBVIOUS
<1>1. ASSUME NEW i \in Invocations, Movement(i) \/ Request(i) PROVE StockInv'
  BY <1>1, StartMovementStep, CommitMovementStep, StartReviewStep, CommitReviewStep
     DEF Movement, Request
<1>2. ASSUME NEW i \in Invocations, Repair(i) PROVE StockInv'
  BY <1>2, StartRepairStep, TakeLeaseStep, ReadLedgerStep, ReadBalanceStep,
     ExtendLeaseStep, ReadTotalStep, CheckRevisionStep, RepairRowStep, ReleaseStep
     DEF Repair
<1>3. ASSUME NEW i \in Invocations, Abandon(i) PROVE StockInv'
  BY <1>3, IdleJob, ReadStep DEF Abandon
<1>4. CASE Tick \/ UNCHANGED vars
  <2>1. UNCHANGED << event, balance, control, indent, job, late >> /\ clock' \in Times
    <3>1. clock \in Times /\ MaxTime \in Nat
      BY StockAssumption DEF StockInv, TypeOK
    <3>2. clock < MaxTime => clock + 1 \in Times
      BY <3>1 DEF Times
    <3> QED
      BY <1>4, <3>1, <3>2 DEF Tick, vars
  <2>2. TypeOK' /\ StockCovered'
    BY <2>1 DEF StockInv, TypeOK, StockCovered
  <2>3. \A k \in Invocations : JobOK(job[k])'
    BY <2>1 DEF StockInv, JobOK
  <2> QED
    BY <2>1, <2>2, <2>3 DEF StockInv
<1> QED
  BY <1>1, <1>2, <1>3, <1>4, CreateIndentStep DEF Next

-----------------------------------------------------------------------------
(* What a repair has read stands while its lease has not passed.            *)

Stands == \A i \in Invocations : ReadStands(i, job[i])


\* What a run has read stands in a step that it does not take part in, and that
\* leaves movements and balances alone or in which it does not hold the lease.
LEMMA StandsAside ==
  ASSUME NEW k, NEW j, ReadStands(k, j),
         LeaseHeld(k, clock)' =>
           LeaseHeld(k, clock) /\ UNCHANGED << event, balance >>
  PROVE  ReadStands(k, j)'
<1> SUFFICES ASSUME j.op \in Comparing, LeaseHeld(k, clock)'
             PROVE  /\ \A r \in Rows : j.expected[r] = LedgerRow(r)'
                    /\ \A r \in ComparedRows(j) \ j.differs :
                         balance'[r] = j.expected[r]
  BY DEF ReadStands, ComparedRows
<1>1. \A r : LedgerRow(r)' = LedgerRow(r)
  BY DEF LedgerRow, Posted, Moved, CountedIn
<1> QED
  BY <1>1 DEF ReadStands, ComparedRows

\* The step of one run, and what it means for the others.
LEMMA RunStep ==
  ASSUME StockInv, Stands, NEW i \in Invocations, NEW j, Do(i, j),
         ReadStands(i, j)',
         \A k \in Invocations \ {i} : LeaseHeld(k, clock)' =>
           LeaseHeld(k, clock) /\ UNCHANGED << event, balance >>
  PROVE  Stands'
<1>1. \A k \in Invocations : job'[k] = IF k = i THEN j ELSE job[k]
  BY JobStep
<1>2. ASSUME NEW k \in Invocations PROVE ReadStands(k, job[k])'
  <2>1. CASE k = i
    BY <1>1, <2>1 DEF ReadStands, ComparedRows
  <2>2. CASE k # i
    <3>1. PICK q : q = job[k]
      OBVIOUS
    <3>2. ReadStands(k, q)'
      BY <2>2, <3>1, StandsAside DEF Stands
    <3> QED
      BY <1>1, <2>2, <3>1, <3>2 DEF ReadStands, ComparedRows
  <2> QED
    BY <2>1, <2>2
<1> QED
  BY <1>2 DEF Stands

\* A step that leaves movements, balances and the control item alone, after
\* which its own run compares nothing.
LEMMA PlainStep ==
  ASSUME StockInv, Stands, NEW i \in Invocations, NEW j, Do(i, j),
         j.op \notin Comparing, UNCHANGED << event, balance, control, clock >>
  PROVE  Stands'
<1>1. ReadStands(i, j)'
  BY DEF ReadStands
<1>2. \A k : LeaseHeld(k, clock)' => LeaseHeld(k, clock)
  BY DEF LeaseHeld
<1> QED
  BY <1>1, <1>2, RunStep

\* Who holds the lease when another run has taken it, or no one has.
LEMMA NotHeld ==
  ASSUME StockInv, NEW t \in Times, t <= clock, LeaseFree(t)
  PROVE  \A k : ~LeaseHeld(k, clock)
<1>1. control.until \in Int /\ t \in Int /\ clock \in Int
  BY DEF StockInv, TypeOK, NoLease, Times
<1> QED
  BY <1>1 DEF LeaseFree, LeaseHeld

LEMMA IdleCompares == Idle.op \notin Comparing
BY DEF Idle, Comparing

\* No run holds the lease when a movement is posted.
LEMMA CommitMovementStands ==
  ASSUME StockInv, Stands, NEW i \in Invocations, NEW t \in Times,
         CommitMovement(i, t)
  PROVE  Stands'
<1>1. /\ t <= clock /\ LeaseFree(t) /\ Do(i, Idle) /\ UNCHANGED clock
      /\ control' = [control EXCEPT !.revision = @ + 1]
  BY DEF CommitMovement, Sampled, Raised
<1>2. \A k : ~LeaseHeld(k, clock)'
  BY <1>1, NotHeld DEF LeaseHeld, StockInv, TypeOK
<1>3. ReadStands(i, Idle)'
  BY IdleCompares DEF ReadStands
<1> QED
  BY <1>1, <1>2, <1>3, RunStep

LEMMA TakeLeaseStands ==
  ASSUME StockInv, Stands, NEW i \in Invocations, NEW t \in Times,
         TakeLease(i, t)
  PROVE  Stands'
<1> DEFINE j == [op |-> "ledger", revision |-> job[i].revision, since |-> clock]
<1>1. /\ Do(i, j) /\ j.op \notin Comparing
      /\ control' = [control EXCEPT !.owner = {i}, !.until = t + Lease]
  BY DEF TakeLease, Comparing
<1>2. control'.owner = {i}
  BY <1>1 DEF StockInv, TypeOK
<1>3. \A k \in Invocations \ {i} : ~LeaseHeld(k, clock)'
  BY <1>2 DEF LeaseHeld
<1>4. PICK q : q = j
  OBVIOUS
<1>5. Do(i, q) /\ q.op \notin Comparing
  BY <1>1, <1>4
<1>6. ReadStands(i, q)'
  BY <1>5 DEF ReadStands
<1> QED
  BY <1>3, <1>5, <1>6, RunStep

LEMMA ReadLedgerStands ==
  ASSUME StockInv, Stands, NEW i \in Invocations, ReadLedger(i)
  PROVE  Stands'
<1> DEFINE expected == [r \in Rows |-> LedgerRow(r)]
           j == [op |-> "balance", revision |-> job[i].revision, since |-> clock,
                 expected |-> expected, left |-> Places, differs |-> {}]
<1>1. Do(i, j) /\ UNCHANGED << event, balance, control, clock >>
  BY DEF ReadLedger
<1>2. \A r \in Rows : LedgerRow(r)' = LedgerRow(r)
  BY <1>1 DEF LedgerRow, Posted, Moved, CountedIn
<1>3. PICK q : q = j
  OBVIOUS
<1>4. /\ \A r \in Rows : q.expected[r] = LedgerRow(r)
      /\ ComparedRows(q) = {}
  BY <1>3 DEF ComparedRows
<1>5. Do(i, q)
  BY <1>1, <1>3
<1> HIDE DEF j
<1>6. ReadStands(i, q)'
  BY <1>2, <1>4 DEF ReadStands, ComparedRows
<1>7. \A k : LeaseHeld(k, clock)' => LeaseHeld(k, clock)
  BY <1>1 DEF LeaseHeld
<1> QED
  BY <1>1, <1>5, <1>6, <1>7, RunStep

\* A run that holds its lease compares more rows, or none.
LEMMA ComparesMore ==
  ASSUME StockInv, Stands, NEW i \in Invocations, job[i].op \in Comparing,
         NEW q, Do(i, q), q.expected = job[i].expected,
         UNCHANGED << event, balance, clock >>,
         LeaseHeld(i, clock)' => LeaseHeld(i, clock),
         \A k \in Invocations \ {i} : LeaseHeld(k, clock)' => LeaseHeld(k, clock),
         \A r \in ComparedRows(q) \ q.differs :
           \/ r \in ComparedRows(job[i]) \ job[i].differs
           \/ balance[r] = job[i].expected[r]
  PROVE  Stands'
<1>1. \A r : LedgerRow(r)' = LedgerRow(r)
  BY DEF LedgerRow, Posted, Moved, CountedIn
<1>2. ReadStands(i, job[i])
  BY DEF Stands
<1>3. ReadStands(i, q)'
  BY <1>1, <1>2 DEF ReadStands, ComparedRows
<1> QED
  BY <1>3, RunStep

LEMMA ReadBalanceStands ==
  ASSUME StockInv, Stands, NEW i \in Invocations, NEW p \in Places,
         ReadBalance(i, p)
  PROVE  Stands'
<1> DEFINE j == [job[i] EXCEPT !.op = "extend", !.left = @ \ {p},
                               !.differs = Compared(job[i], p), !.since = clock]
<1>1. job[i].op = "balance" /\ Do(i, j)
      /\ UNCHANGED << event, balance, control, clock >>
  BY DEF ReadBalance
<1>2. job[i] \in Comparisons
  BY <1>1, Compares DEF Comparing
<1>3. PICK q : q = j
  OBVIOUS
<1>4. /\ q.op = "extend" /\ q.expected = job[i].expected
      /\ q.left = job[i].left \ {p} /\ q.differs = Compared(job[i], p)
  BY <1>2, <1>3 DEF Comparisons
<1>5. Do(i, q)
  BY <1>1, <1>3
<1> HIDE DEF j
<1>6. /\ ComparedRows(q) \subseteq ComparedRows(job[i]) \cup {p}
      /\ job[i].differs \subseteq q.differs
      /\ p \notin q.differs => balance[p] = job[i].expected[p]
  BY <1>1, <1>4 DEF ComparedRows, Compared
<1>7. \A k : LeaseHeld(k, clock)' => LeaseHeld(k, clock)
  BY <1>1 DEF LeaseHeld
<1>8. job[i].op \in Comparing
  BY <1>1 DEF Comparing
<1> QED
  BY <1>1, <1>4, <1>5, <1>6, <1>7, <1>8, ComparesMore

\* The lease is extended before it has passed: it is still this run's.
LEMMA ExtendLeaseStands ==
  ASSUME StockInv, Stands, NEW i \in Invocations, NEW t \in Times,
         ExtendLease(i, t), ~Passed
  PROVE  Stands'
<1> DEFINE j == [job[i] EXCEPT !.op = "balance", !.since = clock]
<1>1. /\ job[i].op = "extend" /\ Do(i, j) /\ control.owner = {i}
      /\ control' = [control EXCEPT !.until = t + Lease]
      /\ UNCHANGED << event, balance, clock >>
  BY DEF ExtendLease, LeaseHeld
<1>2. job[i] \in Comparisons
  BY <1>1, Compares DEF Comparing
<1>3. PICK q : q = j
  OBVIOUS
<1>4. /\ q.op = "balance" /\ q.expected = job[i].expected
      /\ q.left = job[i].left /\ q.differs = job[i].differs
  BY <1>2, <1>3 DEF Comparisons
<1>5. Do(i, q)
  BY <1>1, <1>3
<1> HIDE DEF j
<1>6. LeaseHeld(i, clock)
  <2>1. ~(control.until < clock)
    BY DEF Passed
  <2>2. control.until \in Int /\ clock \in Int
    BY DEF StockInv, TypeOK, NoLease, Times
  <2> QED
    BY <1>1, <2>1, <2>2 DEF LeaseHeld
<1>7. \A k \in Invocations \ {i} : ~LeaseHeld(k, clock)'
  BY <1>1 DEF LeaseHeld, StockInv, TypeOK
<1>8. ComparedRows(q) = ComparedRows(job[i])
  BY <1>1, <1>4 DEF ComparedRows
<1>9. job[i].op \in Comparing
  BY <1>1 DEF Comparing
<1> QED
  BY <1>1, <1>4, <1>5, <1>6, <1>7, <1>8, <1>9, ComparesMore

LEMMA ReadTotalStands ==
  ASSUME StockInv, Stands, NEW i \in Invocations, ReadTotal(i)
  PROVE  Stands'
<1> DEFINE j == [job[i] EXCEPT !.op = "check", !.since = clock,
                               !.differs = Compared(job[i], Total)]
<1>1. job[i].op = "balance" /\ job[i].left = {} /\ Do(i, j)
      /\ UNCHANGED << event, balance, control, clock >>
  BY DEF ReadTotal
<1>2. job[i] \in Comparisons
  BY <1>1, Compares DEF Comparing
<1>3. PICK q : q = j
  OBVIOUS
<1>4. /\ q.op = "check" /\ q.expected = job[i].expected
      /\ q.differs = Compared(job[i], Total)
  BY <1>2, <1>3 DEF Comparisons
<1>5. Do(i, q)
  BY <1>1, <1>3
<1> HIDE DEF j
<1>6. /\ ComparedRows(q) \subseteq ComparedRows(job[i]) \cup {Total}
      /\ job[i].differs \subseteq q.differs
      /\ Total \notin q.differs => balance[Total] = job[i].expected[Total]
  BY <1>1, <1>4, Distinct DEF ComparedRows, Compared
<1>7. \A k : LeaseHeld(k, clock)' => LeaseHeld(k, clock)
  BY <1>1 DEF LeaseHeld
<1>8. job[i].op \in Comparing
  BY <1>1 DEF Comparing
<1> QED
  BY <1>1, <1>4, <1>5, <1>6, <1>7, <1>8, ComparesMore

LEMMA CheckRevisionStands ==
  ASSUME StockInv, Stands, NEW i \in Invocations, CheckRevision(i)
  PROVE  Stands'
<1> DEFINE j == [job[i] EXCEPT !.op = "repair", !.since = clock]
<1>1. job[i].op = "check" /\ Do(i, j)
      /\ UNCHANGED << event, balance, control, clock >>
  BY DEF CheckRevision
<1>2. job[i] \in Comparisons
  BY <1>1, Compares DEF Comparing
<1>3. PICK q : q = j
  OBVIOUS
<1>4. /\ q.op = "repair" /\ q.expected = job[i].expected
      /\ q.differs = job[i].differs
  BY <1>2, <1>3 DEF Comparisons
<1>5. Do(i, q)
  BY <1>1, <1>3
<1> HIDE DEF j
<1>6. ComparedRows(q) = ComparedRows(job[i])
  BY <1>1, <1>4 DEF ComparedRows
<1>7. \A k : LeaseHeld(k, clock)' => LeaseHeld(k, clock)
  BY <1>1 DEF LeaseHeld
<1>8. job[i].op \in Comparing
  BY <1>1 DEF Comparing
<1> QED
  BY <1>1, <1>4, <1>5, <1>6, <1>7, <1>8, ComparesMore

\* What a repair that is not late writes is what the records imply.
LEMMA RepairWrites ==
  ASSUME StockInv, Stands, NEW i \in Invocations, NEW r \in Rows,
         NEW t \in Times, RepairRow(i, r, t), ~Passed
  PROVE  /\ job[i].op = "repair" /\ control.owner = {i} /\ LeaseHeld(i, clock)
         /\ \A s \in Rows : job[i].expected[s] = LedgerRow(s)
         /\ \A s \in Rows \ job[i].differs : balance[s] = job[i].expected[s]
         /\ \A s \in Rows :
              balance'[s] = IF s = r THEN job[i].expected[r] ELSE balance[s]
         /\ \A s \in Rows : LedgerRow(s)' = LedgerRow(s)
         /\ control' = [control EXCEPT !.until = t + Lease]
         /\ UNCHANGED << event, clock >>
<1>1. /\ job[i].op = "repair" /\ control.owner = {i}
      /\ balance' = [balance EXCEPT ![r] = job[i].expected[r]]
      /\ control' = [control EXCEPT !.until = t + Lease]
      /\ UNCHANGED << event, clock >>
  BY DEF RepairRow, LeaseHeld
<1>2. LeaseHeld(i, clock)
  <2>1. ~(control.until < clock)
    BY DEF Passed
  <2>2. control.until \in Int /\ clock \in Int
    BY DEF StockInv, TypeOK, NoLease, Times
  <2> QED
    BY <1>1, <2>1, <2>2 DEF LeaseHeld
<1>3. /\ \A s \in Rows : job[i].expected[s] = LedgerRow(s)
      /\ \A s \in Rows \ job[i].differs : balance[s] = job[i].expected[s]
  BY <1>1, <1>2 DEF Stands, ReadStands, ComparedRows, Comparing
<1>4. \A s \in Rows : LedgerRow(s)' = LedgerRow(s)
  BY <1>1 DEF LedgerRow, Posted, Moved, CountedIn
<1>5. \A s \in Rows :
        balance'[s] = IF s = r THEN job[i].expected[r] ELSE balance[s]
  BY <1>1 DEF StockInv, TypeOK
<1> QED
  BY <1>1, <1>2, <1>3, <1>4, <1>5

LEMMA RepairRowStands ==
  ASSUME StockInv, Stands, NEW i \in Invocations, NEW r \in Rows,
         NEW t \in Times, RepairRow(i, r, t), ~Passed
  PROVE  Stands'
<1> DEFINE j == [job[i] EXCEPT !.differs = @ \ {r}, !.since = clock]
<1>1. Do(i, j)
  BY DEF RepairRow
<1>2. job[i] \in Comparisons /\ job[i].op = "repair"
  BY RepairWrites, Compares DEF Comparing
<1>3. PICK q : q = j
  OBVIOUS
<1>4. /\ q.op = "repair" /\ q.expected = job[i].expected
      /\ q.differs = job[i].differs \ {r}
  BY <1>2, <1>3 DEF Comparisons
<1>5. Do(i, q)
  BY <1>1, <1>3
<1> HIDE DEF j
<1>6. /\ \A s \in Rows : q.expected[s] = LedgerRow(s)'
      /\ \A s \in Rows \ q.differs : balance'[s] = q.expected[s]
  BY <1>4, RepairWrites
<1>7. ReadStands(i, q)'
  BY <1>4, <1>6 DEF ReadStands, ComparedRows
<1>8. control'.owner = {i}
  BY RepairWrites DEF StockInv, TypeOK
<1>9. \A k \in Invocations \ {i} : ~LeaseHeld(k, clock)'
  BY <1>8 DEF LeaseHeld
<1> QED
  BY <1>5, <1>7, <1>9, RunStep

LEMMA ReleaseStands ==
  ASSUME StockInv, Stands, NEW i \in Invocations, Release(i)
  PROVE  Stands'
<1>1. /\ Do(i, Idle) /\ UNCHANGED << event, balance, clock >>
      /\ control' = IF control.owner = {i} THEN Freed ELSE control
  BY DEF Release
<1>2. ReadStands(i, Idle)'
  BY IdleCompares DEF ReadStands
<1>3. \A k \in Invocations \ {i} : LeaseHeld(k, clock)' => LeaseHeld(k, clock)
  <2>1. CASE control.owner = {i}
    <3>1. control'.owner = {}
      BY <1>1, <2>1 DEF Freed, StockInv, TypeOK
    <3> QED
      BY <3>1 DEF LeaseHeld
  <2>2. CASE control.owner # {i}
    BY <1>1, <2>2 DEF LeaseHeld
  <2> QED
    BY <2>1, <2>2
<1> QED
  BY <1>1, <1>2, <1>3, RunStep

\* Time passes, or a material request is created: no one gains the lease.
LEMMA OthersStand ==
  ASSUME StockInv, Stands, UNCHANGED << event, balance, control, job >>,
         clock' = clock \/ clock' = clock + 1
  PROVE  Stands'
<1>1. control.until \in Int /\ clock \in Int
  BY DEF StockInv, TypeOK, NoLease, Times
<1>2. \A k : LeaseHeld(k, clock)' => LeaseHeld(k, clock)
  BY <1>1 DEF LeaseHeld
<1>3. ASSUME NEW k \in Invocations PROVE ReadStands(k, job[k])'
  <2>1. PICK q : q = job[k]
    OBVIOUS
  <2>2. ReadStands(k, q)'
    BY <1>2, <2>1, StandsAside DEF Stands
  <2> QED
    BY <2>1, <2>2 DEF ReadStands, ComparedRows
<1> QED
  BY <1>3 DEF Stands

LEMMA InitRepair == Init => RepairInv
BY IdleCompares DEF Init, RepairInv, ReadStands

\* The steps of the specification one by one, for a goal that each preserves.
LEMMA NextStands ==
  ASSUME StockInv, Stands, [Next]_vars, ~late'
  PROVE  Stands'
<1>1. CASE UNCHANGED vars
  BY <1>1, OthersStand DEF vars
<1>2. ASSUME NEW i \in Invocations, Movement(i) PROVE Stands'
  <2>1. ASSUME NEW id \in RequestIds, NEW e \in Events, StartMovement(i, id, e)
        PROVE  Stands'
    <3> DEFINE j == [op |-> "move", id |-> id, event |-> e, since |-> clock]
    <3>1. Do(i, j) /\ j.op \notin Comparing
          /\ UNCHANGED << event, balance, control, clock >>
      BY <2>1 DEF StartMovement, Comparing
    <3> HIDE DEF j
    <3> QED
      BY <3>1, PlainStep
  <2> QED
    BY <1>2, <2>1, CommitMovementStands DEF Movement
<1>3. ASSUME NEW i \in Invocations, Request(i) PROVE Stands'
  <2>1. ASSUME NEW m \in Indents, NEW status, StartReview(i, m, status)
        PROVE  Stands'
    <3> DEFINE j == [op |-> "review", id |-> m, since |-> clock,
                     after |-> [indent[m] EXCEPT !.status = status,
                                                 !.version = @ + 1]]
    <3>1. Do(i, j) /\ j.op \notin Comparing
          /\ UNCHANGED << event, balance, control, clock >>
      BY <2>1 DEF StartReview, Comparing
    <3> HIDE DEF j
    <3> QED
      BY <3>1, PlainStep
  <2>2. ASSUME CommitReview(i) PROVE Stands'
    BY <2>2, IdleCompares, PlainStep DEF CommitReview
  <2> QED
    BY <1>3, <2>1, <2>2 DEF Request
<1>4. ASSUME NEW i \in Invocations, Repair(i) PROVE Stands'
  <2>1. ASSUME StartRepair(i) PROVE Stands'
    <3> DEFINE j == [op |-> "lease", revision |-> control.revision,
                     since |-> clock]
    <3>1. Do(i, j) /\ j.op \notin Comparing
          /\ UNCHANGED << event, balance, control, clock >>
      BY <2>1 DEF StartRepair, Comparing
    <3> HIDE DEF j
    <3> QED
      BY <3>1, PlainStep
  <2>2. ASSUME NEW t \in Times, ExtendLease(i, t) PROVE Stands'
    BY <2>2, ExtendLeaseStands DEF ExtendLease
  <2>3. ASSUME NEW r \in Rows, NEW t \in Times, RepairRow(i, r, t) PROVE Stands'
    BY <2>3, RepairRowStands DEF RepairRow
  <2> QED
    BY <1>4, <2>1, <2>2, <2>3, TakeLeaseStands, ReadLedgerStands,
       ReadBalanceStands, ReadTotalStands, CheckRevisionStands, ReleaseStands
       DEF Repair
<1>5. ASSUME NEW i \in Invocations, Abandon(i) PROVE Stands'
  BY <1>5, IdleCompares, PlainStep DEF Abandon
<1>6. ASSUME NEW m \in Indents, NEW p \in Projects, NEW n \in 1..MaxQty,
             CreateIndent(m, p, n)
      PROVE  Stands'
  BY <1>6, OthersStand DEF CreateIndent
<1>7. ASSUME Tick PROVE Stands'
  BY <1>7, OthersStand DEF Tick
<1> QED
  BY <1>1, <1>2, <1>3, <1>4, <1>5, <1>6, <1>7 DEF Next

\* A write that came late is not forgotten.
LEMMA LateStays == [Next]_vars => (late => late')
BY DEF Next, vars, Movement, Request, Repair, StartMovement, CommitMovement,
       StartReview, CommitReview, StartRepair, TakeLease, ReadLedger, ReadBalance,
       ExtendLease, ReadTotal, CheckRevision, RepairRow, Release, Abandon,
       CreateIndent, Tick

LEMMA NextRepair == StockInv /\ RepairInv /\ [Next]_vars => RepairInv'
<1> SUFFICES ASSUME StockInv, RepairInv, [Next]_vars, ~late' PROVE Stands'
  BY DEF RepairInv, Stands
<1>1. Stands
  BY LateStays DEF RepairInv, Stands
<1> QED
  BY <1>1, NextStands

-----------------------------------------------------------------------------
(* How far a row is from its records.                                       *)

\* A row that is changed as its records are differs from them as before.
LEMMA DriftPosted ==
  ASSUME StockInv, NEW i \in Invocations, NEW t \in Times, CommitMovement(i, t),
         NEW r \in Rows
  PROVE  Drift(r)' = Drift(r)
<1> DEFINE e == job[i].event
           id == job[i].id
<1>1. /\ job[i].op = "move" /\ event[id] = NoEvent
      /\ event' = [event EXCEPT ![id] = e]
      /\ balance' = [s \in Rows |->
           [quantity |-> balance[s].quantity + Change(e, s),
            used |-> balance[s].used + Counted(e, "usage", s),
            returned |-> balance[s].returned + Counted(e, "return", s)]]
  BY DEF CommitMovement
<1>2. id \in RequestIds /\ e \in Events
  BY <1>1 DEF StockInv, JobOK
<1> HIDE DEF e, id
<1>3. PICK x \in Events : x = e
  BY <1>2
<1>4. PICK y \in RequestIds : y = id
  BY <1>2
<1>5. event \in [RequestIds -> {NoEvent} \cup Events]
  BY DEF StockInv, TypeOK
<1>6. LedgerRow(r)' =
        [quantity |-> LedgerRow(r).quantity + Change(x, r),
         used |-> LedgerRow(r).used + Counted(x, "usage", r),
         returned |-> LedgerRow(r).returned + Counted(x, "return", r)]
  BY <1>1, <1>3, <1>4, <1>5, LedgerPosts
<1>7. balance'[r] = [quantity |-> balance[r].quantity + Change(x, r),
                     used |-> balance[r].used + Counted(x, "usage", r),
                     returned |-> balance[r].returned + Counted(x, "return", r)]
  BY <1>1, <1>3
<1>8. PICK q, u, v, a, b, c : /\ q = balance[r].quantity /\ a = LedgerRow(r).quantity
                              /\ u = balance[r].used /\ b = LedgerRow(r).used
                              /\ v = balance[r].returned /\ c = LedgerRow(r).returned
  OBVIOUS
<1>9. q \in Int /\ u \in Int /\ v \in Int /\ a \in Int /\ b \in Int /\ c \in Int
  BY <1>5, <1>8, LedgerTyped DEF StockInv, TypeOK, Quantities
<1>10. PICK k, l, m \in Int : /\ k = Change(x, r) /\ l = Counted(x, "usage", r)
                              /\ m = Counted(x, "return", r)
  BY ChangeTypes
<1>11. Drift(r)' = << (q + k) - (a + k), (u + l) - (b + l), (v + m) - (c + m) >>
  BY <1>6, <1>7, <1>8, <1>10 DEF Drift
<1>12. Drift(r) = << q - a, u - b, v - c >>
  BY <1>8 DEF Drift
<1>13. (q + k) - (a + k) = q - a /\ (u + l) - (b + l) = u - b
       /\ (v + m) - (c + m) = v - c
  BY <1>9, <1>10
<1> QED
  BY <1>11, <1>12, <1>13

LEMMA DriftKept ==
  ASSUME UNCHANGED << event, balance >>, NEW r
  PROVE  Drift(r)' = Drift(r)
BY DEF Drift, LedgerRow, Posted, Moved, CountedIn

\* A row that is what its records imply does not differ from them.
LEMMA NoDrift ==
  ASSUME TypeOK, NEW r \in Rows, balance[r] = LedgerRow(r)
  PROVE  Drift(r) = << 0, 0, 0 >>
<1>1. PICK e : e = LedgerRow(r)
  OBVIOUS
<1>2. e.quantity \in Int /\ e.used \in Int /\ e.returned \in Int
  BY <1>1 DEF TypeOK, Quantities
<1>3. Drift(r) = << e.quantity - e.quantity, e.used - e.used,
                    e.returned - e.returned >>
  BY <1>1 DEF Drift
<1> QED
  BY <1>2, <1>3

LEMMA ExactBatch ==
  ASSUME StockInv, StockInv', NEW i \in Invocations, NEW s \in Rows,
         NEW t \in Times, RepairRow(i, s, t),
         \A q \in Rows : job[i].expected[q] = LedgerRow(q), NEW r \in Rows
  PROVE  Drift(r)' \in {Drift(r), << 0, 0, 0 >>}
<1>1. balance' = [balance EXCEPT ![s] = job[i].expected[s]] /\ UNCHANGED event
  BY DEF RepairRow
<1>2. \A q : LedgerRow(q)' = LedgerRow(q)
  BY <1>1 DEF LedgerRow, Posted, Moved, CountedIn
<1>3. balance'[r] = IF r = s THEN LedgerRow(s)' ELSE balance[r]
  BY <1>1, <1>2 DEF StockInv, TypeOK
<1>4. CASE r = s
  <2>1. PICK e : e = LedgerRow(r)'
    OBVIOUS
  <2>2. balance'[r] = e
    BY <1>3, <1>4, <2>1
  <2>3. e.quantity \in Int /\ e.used \in Int /\ e.returned \in Int
    BY <2>2 DEF StockInv, TypeOK, Quantities
  <2>4. Drift(r)' = << e.quantity - e.quantity, e.used - e.used,
                       e.returned - e.returned >>
    BY <2>1, <2>2 DEF Drift
  <2> QED
    BY <2>3, <2>4
<1>5. CASE r # s
  BY <1>2, <1>3, <1>5 DEF Drift
<1> QED
  BY <1>4, <1>5

\* The steps that touch neither movements nor balances, and the two that do.
LEMMA MovingSteps ==
  ASSUME [Next]_vars
  PROVE  \/ UNCHANGED << event, balance >>
         \/ \E i \in Invocations, t \in Times :
              CommitMovement(i, t) \/ \E s \in Rows : RepairRow(i, s, t)
<1>1. CASE UNCHANGED vars
  BY <1>1 DEF vars
<1>2. CASE Next
  <2>1. ASSUME NEW i \in Invocations,
               \/ Request(i) \/ Abandon(i)
               \/ \E id \in RequestIds, e \in Events : StartMovement(i, id, e)
               \/ StartRepair(i) \/ ReadLedger(i) \/ ReadTotal(i)
               \/ CheckRevision(i) \/ Release(i)
               \/ \E p \in Places : ReadBalance(i, p)
               \/ \E t \in Times : TakeLease(i, t) \/ ExtendLease(i, t)
        PROVE  UNCHANGED << event, balance >>
    BY <2>1 DEF Request, Abandon, StartMovement, StartReview, CommitReview,
                StartRepair, ReadLedger, ReadTotal, CheckRevision, Release,
                ReadBalance, TakeLease, ExtendLease
  <2> QED
    BY <1>2, <2>1 DEF Next, Movement, Repair, CreateIndent, Tick
<1> QED
  BY <1>1, <1>2

\* One action property of the specification's steps.
DriftStep == \A r \in Rows : Steady(r)

LEMMA NextDrift ==
  ASSUME StockInv, StockInv', RepairInv, [Next]_vars, ~late'
  PROVE  DriftStep
<1>1. CASE UNCHANGED << event, balance >>
  BY <1>1, DriftKept DEF DriftStep, Steady
<1>2. ASSUME NEW i \in Invocations, NEW t \in Times, CommitMovement(i, t)
      PROVE  DriftStep
  BY <1>2, DriftPosted DEF DriftStep, Steady
<1>3. ASSUME NEW i \in Invocations, NEW s \in Rows, NEW t \in Times,
             RepairRow(i, s, t)
      PROVE  DriftStep
  <2>1. Stands /\ ~Passed
    BY <1>3, LateStays DEF RepairInv, Stands, RepairRow
  <2>2. \A q \in Rows : job[i].expected[q] = LedgerRow(q)
    BY <1>3, <2>1, RepairWrites
  <2> QED
    BY <1>3, <2>2, ExactBatch DEF DriftStep, Steady
<1> QED
  BY <1>1, <1>2, <1>3, MovingSteps

-----------------------------------------------------------------------------
(* What a repair has read stands while the revision has not moved.          *)

\* The step of one run that posts nothing.
LEMMA RevisionKept ==
  ASSUME StockInv, RevisionInv, NEW i \in Invocations, NEW j, Do(i, j),
         ReadUnmoved(j), UNCHANGED event, control'.revision = control.revision
  PROVE  RevisionInv'
<1>1. \A r : LedgerRow(r)' = LedgerRow(r)
  BY DEF LedgerRow, Posted, Moved, CountedIn
<1>2. \A k \in Invocations : job'[k] = IF k = i THEN j ELSE job[k]
  BY JobStep
<1>3. ASSUME NEW k \in Invocations PROVE ReadUnmoved(job[k])'
  <2>1. ReadUnmoved(job'[k])
    BY <1>2 DEF RevisionInv
  <2> QED
    BY <1>1, <2>1 DEF ReadUnmoved, Unmoved
<1> QED
  BY <1>3 DEF RevisionInv

\* A run that goes on with the revision it read, and with what it read.
LEMMA RevisionRead ==
  ASSUME StockInv, RevisionInv, NEW i \in Invocations, NEW j, Do(i, j),
         job[i].op \in Comparing, j.revision = job[i].revision,
         j.expected = job[i].expected,
         UNCHANGED event, control'.revision = control.revision
  PROVE  RevisionInv'
<1>1. ReadUnmoved(j)
  BY DEF RevisionInv, ReadUnmoved, Unmoved
<1> QED
  BY <1>1, RevisionKept

\* Every movement raises the revision: no run that is under way has read it.
LEMMA RevisionRaised ==
  ASSUME StockInv, RevisionInv, NEW i \in Invocations, NEW t \in Times,
         CommitMovement(i, t)
  PROVE  RevisionInv'
<1>1. /\ \A k \in Invocations : job'[k] = IF k = i THEN Idle ELSE job[k]
      /\ control'.revision = control.revision + 1 /\ control.revision \in Nat
  BY JobStep DEF CommitMovement, Raised, StockInv, TypeOK
<1>2. ASSUME NEW k \in Invocations PROVE ReadUnmoved(job[k])'
  <2>1. CASE k = i
    BY <1>1, <2>1 DEF ReadUnmoved, Idle, Comparing
  <2>2. CASE k # i
    <3>1. /\ job'[k] = job[k] /\ ReadUnmoved(job[k])
          /\ job[k].op \in {"lease", "ledger"} \cup Comparing =>
               job[k].revision \in Nat
      BY <1>1, <2>2 DEF RevisionInv, StockInv, JobOK, Comparisons
    <3> QED
      BY <1>1, <3>1 DEF ReadUnmoved, Unmoved
  <2> QED
    BY <2>1, <2>2
<1> QED
  BY <1>2 DEF RevisionInv

LEMMA RepairRevision ==
  ASSUME StockInv, RevisionInv, NEW i \in Invocations, Repair(i)
  PROVE  RevisionInv'
<1>1. ASSUME StartRepair(i) PROVE RevisionInv'
  <2> DEFINE j == [op |-> "lease", revision |-> control.revision, since |-> clock]
  <2>1. Do(i, j) /\ UNCHANGED << event, control >>
    BY <1>1 DEF StartRepair
  <2>2. ReadUnmoved(j)
    BY DEF ReadUnmoved, Comparing, StockInv, TypeOK
  <2> HIDE DEF j
  <2> QED
    BY <2>1, <2>2, RevisionKept
<1>2. ASSUME NEW t \in Times, TakeLease(i, t) PROVE RevisionInv'
  <2> DEFINE j == [op |-> "ledger", revision |-> job[i].revision, since |-> clock]
  <2>1. /\ Do(i, j) /\ UNCHANGED event /\ job[i].revision = control.revision
        /\ control'.revision = control.revision /\ control.revision \in Nat
    BY <1>2 DEF TakeLease, StockInv, TypeOK
  <2>2. ReadUnmoved(j)
    BY <2>1 DEF ReadUnmoved, Comparing
  <2> HIDE DEF j
  <2> QED
    BY <2>1, <2>2, RevisionKept
<1>3. ASSUME ReadLedger(i) PROVE RevisionInv'
  <2> DEFINE expected == [r \in Rows |-> LedgerRow(r)]
             j == [op |-> "balance", revision |-> job[i].revision,
                   since |-> clock, expected |-> expected, left |-> Places,
                   differs |-> {}]
  <2>1. /\ job[i].op = "ledger" /\ Do(i, j) /\ UNCHANGED << event, control >>
        /\ job[i].revision <= control.revision
    BY <1>3 DEF ReadLedger, RevisionInv, ReadUnmoved
  <2>2. \A r \in Rows : expected[r] = LedgerRow(r)
    OBVIOUS
  <2> HIDE DEF expected
  <2>3. ReadUnmoved(j)
    BY <2>1, <2>2 DEF ReadUnmoved
  <2> HIDE DEF j
  <2> QED
    BY <2>1, <2>3, RevisionKept
<1>4. ASSUME \/ \E p \in Places : ReadBalance(i, p)
             \/ \E t \in Times : ExtendLease(i, t)
             \/ ReadTotal(i) \/ CheckRevision(i)
             \/ \E r \in Rows, t \in Times : RepairRow(i, r, t)
      PROVE  RevisionInv'
  <2>1. /\ job[i].op \in Comparing /\ UNCHANGED event
        /\ control'.revision = control.revision
    BY <1>4 DEF ReadBalance, ExtendLease, ReadTotal, CheckRevision, RepairRow,
                Comparing, StockInv, TypeOK
  <2>2. job[i] \in Comparisons
    BY <2>1, Compares
  <2>3. ASSUME NEW op \in Comparing, NEW left, NEW differs,
               Do(i, [job[i] EXCEPT !.op = op, !.left = left,
                                    !.differs = differs, !.since = clock])
        PROVE  RevisionInv'
    <3> DEFINE j == [job[i] EXCEPT !.op = op, !.left = left,
                                   !.differs = differs, !.since = clock]
    <3>1. Do(i, j) /\ j.revision = job[i].revision /\ j.expected = job[i].expected
      BY <2>2, <2>3 DEF Comparisons
    <3> HIDE DEF j
    <3> QED
      BY <2>1, <3>1, RevisionRead
  <2>4. ASSUME NEW p \in Places, ReadBalance(i, p) PROVE RevisionInv'
    <3>1. Do(i, [job[i] EXCEPT !.op = "extend", !.left = job[i].left \ {p},
                               !.differs = Compared(job[i], p), !.since = clock])
      BY <2>2, <2>4 DEF ReadBalance, Comparisons
    <3> QED
      BY <2>3, <3>1 DEF Comparing
  <2>5. ASSUME NEW t \in Times, ExtendLease(i, t) PROVE RevisionInv'
    <3>1. Do(i, [job[i] EXCEPT !.op = "balance", !.left = job[i].left,
                               !.differs = job[i].differs, !.since = clock])
      BY <2>2, <2>5 DEF ExtendLease, Comparisons, Do
    <3> QED
      BY <2>3, <3>1 DEF Comparing
  <2>6. ASSUME ReadTotal(i) PROVE RevisionInv'
    <3>1. Do(i, [job[i] EXCEPT !.op = "check", !.left = job[i].left,
                               !.differs = Compared(job[i], Total),
                               !.since = clock])
      BY <2>2, <2>6 DEF ReadTotal, Comparisons, Do
    <3> QED
      BY <2>3, <3>1 DEF Comparing
  <2>7. ASSUME CheckRevision(i) PROVE RevisionInv'
    <3>1. Do(i, [job[i] EXCEPT !.op = "repair", !.left = job[i].left,
                               !.differs = job[i].differs, !.since = clock])
      BY <2>2, <2>7 DEF CheckRevision, Comparisons, Do
    <3> QED
      BY <2>3, <3>1 DEF Comparing
  <2>8. ASSUME NEW r \in Rows, NEW t \in Times, RepairRow(i, r, t)
        PROVE  RevisionInv'
    <3>1. Do(i, [job[i] EXCEPT !.op = "repair", !.left = job[i].left,
                               !.differs = job[i].differs \ {r}, !.since = clock])
      BY <2>2, <2>8 DEF RepairRow, Comparisons, Do
    <3> QED
      BY <2>3, <3>1 DEF Comparing
  <2> QED
    BY <1>4, <2>4, <2>5, <2>6, <2>7, <2>8
<1>5. ASSUME Release(i) PROVE RevisionInv'
  <2>1. /\ Do(i, Idle) /\ UNCHANGED event
        /\ control'.revision = control.revision
    BY <1>5 DEF Release, Freed, StockInv, TypeOK
  <2> QED
    BY <2>1, RevisionKept DEF ReadUnmoved, Idle, Comparing
<1> QED
  BY <1>1, <1>2, <1>3, <1>4, <1>5 DEF Repair

LEMMA InitRevision == Init => RevisionInv
BY DEF Init, RevisionInv, ReadUnmoved, Idle, Comparing

LEMMA NextRevision == StockInv /\ RevisionInv /\ [Next]_vars => RevisionInv'
<1> SUFFICES ASSUME StockInv, RevisionInv, [Next]_vars PROVE RevisionInv'
  OBVIOUS
<1>1. CASE UNCHANGED << event, control, job >>
  <2>1. \A r : LedgerRow(r)' = LedgerRow(r)
    BY <1>1 DEF LedgerRow, Posted, Moved, CountedIn
  <2> QED
    BY <1>1, <2>1 DEF RevisionInv, ReadUnmoved, Unmoved
<1>2. ASSUME NEW i \in Invocations, NEW j, Do(i, j), UNCHANGED << event, control >>,
             j.op \in {"idle", "move", "review"}
      PROVE  RevisionInv'
  BY <1>2, RevisionKept DEF ReadUnmoved, Comparing
<1>3. ASSUME NEW i \in Invocations, Movement(i) \/ Request(i) \/ Abandon(i)
      PROVE  RevisionInv'
  <2>1. ASSUME NEW id \in RequestIds, NEW e \in Events, StartMovement(i, id, e)
        PROVE  RevisionInv'
    <3> DEFINE j == [op |-> "move", id |-> id, event |-> e, since |-> clock]
    <3>1. Do(i, j) /\ j.op = "move" /\ UNCHANGED << event, control >>
      BY <2>1 DEF StartMovement
    <3> HIDE DEF j
    <3> QED
      BY <1>2, <3>1
  <2>2. ASSUME NEW m \in Indents, NEW status, StartReview(i, m, status)
        PROVE  RevisionInv'
    <3> DEFINE j == [op |-> "review", id |-> m, since |-> clock,
                     after |-> [indent[m] EXCEPT !.status = status,
                                                 !.version = @ + 1]]
    <3>1. Do(i, j) /\ j.op = "review" /\ UNCHANGED << event, control >>
      BY <2>2 DEF StartReview
    <3> HIDE DEF j
    <3> QED
      BY <1>2, <3>1
  <2>3. ASSUME CommitReview(i) \/ Abandon(i) PROVE RevisionInv'
    BY <1>2, <2>3 DEF CommitReview, Abandon, Idle
  <2> QED
    BY <1>3, <2>1, <2>2, <2>3, RevisionRaised DEF Movement, Request
<1> QED
  BY <1>1, <1>3, RepairRevision DEF Next, CreateIndent, Tick, vars

\* The other action property of the specification's steps.
StaleStep ==
  \A r \in Rows : ~Steady(r) =>
    \E i \in Invocations :
      job[i].op = "repair" /\ job'[i] # job[i] /\ ~Unmoved(job[i])

LEMMA NextStale ==
  ASSUME StockInv, StockInv', RevisionInv, [Next]_vars
  PROVE  StaleStep
<1>1. CASE UNCHANGED << event, balance >>
  BY <1>1, DriftKept DEF StaleStep, Steady
<1>2. ASSUME NEW i \in Invocations, NEW t \in Times, CommitMovement(i, t)
      PROVE  StaleStep
  BY <1>2, DriftPosted DEF StaleStep, Steady
<1>3. ASSUME NEW i \in Invocations, NEW s \in Rows, NEW t \in Times,
             RepairRow(i, s, t)
      PROVE  StaleStep
  <2>1. /\ job[i].op = "repair" /\ s \in job[i].differs
        /\ job'[i] = [job[i] EXCEPT !.differs = @ \ {s}, !.since = clock]
    BY <1>3 DEF RepairRow, Do, StockInv
  <2>2. CASE Unmoved(job[i])
    <3>1. \A q \in Rows : job[i].expected[q] = LedgerRow(q)
      BY <2>1, <2>2 DEF RevisionInv, ReadUnmoved, Comparing
    <3> QED
      BY <1>3, <3>1, ExactBatch DEF StaleStep, Steady
  <2>3. CASE ~Unmoved(job[i])
    <3>1. job[i] \in Comparisons
      BY <2>1, Compares DEF Comparing
    <3>2. s \notin job'[i].differs
      BY <2>1, <3>1 DEF Comparisons
    <3> QED
      BY <2>1, <2>3, <3>2 DEF StaleStep, Steady
  <2> QED
    BY <2>2, <2>3
<1> QED
  BY <1>1, <1>2, <1>3, MovingSteps

-----------------------------------------------------------------------------
(* Results.                                                                 *)

\* The invariant of types and stock holds for any clock and any delay.
THEOREM StockInvariant == Spec => []StockInv
BY InitStock, NextStock, PTL DEF Spec

\* Movements, balances, the control item and requests have their types.
THEOREM TypeCorrect == Spec => []TypeOK
<1>1. StockInv => TypeOK
  BY DEF StockInv
<1> QED
  BY <1>1, StockInvariant, PTL

\* No movement, retry or repair takes a balance below zero, whatever interleaves
\* and however late the clock is read.
THEOREM NeverShort == Spec => []StockCovered
<1>1. StockInv => StockCovered
  BY DEF StockInv
<1> QED
  BY <1>1, StockInvariant, PTL

\* Until a run writes under a lease that has passed, a repair that has written
\* its last row under its lease leaves no row that differs from the records,
\* however old the readings of the clock are.
THEOREM RepairsComplete == Spec => []RepairComplete
<1>1. StockInv /\ RepairInv => RepairComplete
  <2> SUFFICES ASSUME StockInv, RepairInv, NEW i \in Invocations, ~late,
                      job[i].op = "repair", job[i].differs = {},
                      LeaseHeld(i, clock), NEW r \in Rows
               PROVE  Drift(r) = << 0, 0, 0 >>
    BY DEF RepairComplete
  <2>1. job[i].op \in Comparing /\ r \in ComparedRows(job[i]) \ job[i].differs
    BY DEF Comparing, ComparedRows
  <2>2. balance[r] = LedgerRow(r)
    BY <2>1 DEF RepairInv, ReadStands
  <2> QED
    BY <2>2, NoDrift DEF StockInv
<1> QED
  BY <1>1, StockInvariant, InitRepair, NextRepair, PTL DEF Spec

\* Until then, a row never comes to differ from its movement records in another
\* way than it did: movements count once, and repairs are exact.
THEOREM DriftsOnlyRepaired == Spec => DriftOnlyRepaired
<1>1. StockInv /\ StockInv' /\ RepairInv /\ [Next]_vars => [~late' => DriftStep]_vars
  BY NextDrift
<1>2. [][~late' => DriftStep]_vars => DriftOnlyRepaired
  BY DEF DriftStep, DriftOnlyRepaired
<1> QED
  BY <1>1, <1>2, StockInvariant, InitRepair, NextRepair, PTL DEF Spec

\* However late its batches come, a repair makes a row differ in a new way only
\* when a movement was posted since it read the revision.
THEOREM StaleBatchesOnly == Spec => OnlyStaleBatches
<1>1. StockInv /\ StockInv' /\ RevisionInv /\ [Next]_vars => [StaleStep]_vars
  BY NextStale
<1>2. [][StaleStep]_vars => OnlyStaleBatches
  BY DEF StaleStep, OnlyStaleBatches
<1> QED
  BY <1>1, <1>2, StockInvariant, InitRevision, NextRevision, PTL DEF Spec
=============================================================================
