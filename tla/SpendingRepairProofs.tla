------------------------- MODULE SpendingRepairProofs -------------------------
(* The inductive invariant of SpendingRepair, its safety properties and that  *)
(* it implements Ledger, for any records, source tables and repair runs.  A   *)
(* sum over the records stays unopened: equal values have equal sums, and one *)
(* that changes changes the sum by as much (TotalsProofs).                    *)
EXTENDS SpendingRepair, TotalsProofs

LEMMA RowsSubset ==
  /\ \A c \in Controls : RowsOf(c) \subseteq Rows
  /\ \A k \in RowsOf("reports") : k \notin RowsOf("project")
  /\ "wages" \notin RowsOf("reports")
BY DEF RowsOf, Rows, ProjectRows, ReportRows, Controls

\* The types of a run's fields.
LEMMA JobFields ==
  ASSUME NEW j \in Jobs, j # Idle
  PROVE  /\ j.op \in {"claim", "read", "extend", "verify", "wages", "write"}
         /\ j.control \in Controls /\ j.leased \in BOOLEAN /\ j.revision \in Nat
         /\ j.live \in BOOLEAN /\ j.late \in BOOLEAN
         /\ j.left \subseteq Ids /\ j.seen \in [Ids -> Records]
         /\ j.differs \subseteq Rows
BY DEF Jobs

\* A record adds a natural number to each row, and a wage none to the reports.
LEMMA ValueType ==
  ASSUME NEW k \in Rows, NEW x \in Records
  PROVE  /\ Value(k, x) \in Nat
         /\ k \in ReportRows /\ x.status \in WageStatuses => Value(k, x) = 0
BY DEF Rows, ProjectRows, ReportRows, Records, Value, Contribution, WorkerContribution,
       WageStatuses

LEMMA ImpliedType ==
  ASSUME NEW k \in Rows, NEW s \in [Ids -> Records]
  PROVE  Implied(k, s) \in Int
<1> DEFINE f == [r \in Ids |-> Value(k, s[r])]
<1>1. IsFiniteSet(Ids)
  BY RepairAssumption
<1>2. \A r \in Ids : f[r] \in Int
  BY ValueType
<1>3. Sum(Ids, f) \in Int
  BY <1>1, <1>2, SumType
<1> QED
  BY <1>3 DEF Implied

\* Equal values have equal sums.
LEMMA ImpliedSame ==
  ASSUME NEW k, NEW s, NEW t,
         \A r \in Ids : Value(k, s[r]) = Value(k, t[r])
  PROVE  Implied(k, s) = Implied(k, t)
<1>1. [r \in Ids |-> Value(k, s[r])] = [r \in Ids |-> Value(k, t[r])]
  OBVIOUS
<1> QED
  BY <1>1 DEF Implied

\* What a run that has read all its sources in time under a live lease, or
\* without the revision moving, takes the records to imply is what they imply:
\* the wages, which the reports' repair does not read, add nothing to them.
LEMMA SeenImplied ==
  ASSUME TypeOK, NEW i, NEW j, SeenStands(i, j), j.left = {}, Kinds(j.seen),
         j.control \in Controls, j.seen \in [Ids -> Records],
         (~j.late /\ Live(i, j)) \/ Unmoved(j),
         NEW k \in RowsOf(j.control)
  PROVE  Implied(k, j.seen) = Implied(k, record)
<1>1. \A r \in SourcesOf(j.control) : Value(k, j.seen[r]) = Value(k, record[r])
  BY DEF SeenStands
<1>2. ASSUME NEW r \in Ids, r \notin SourcesOf(j.control)
      PROVE  Value(k, j.seen[r]) = Value(k, record[r])
  <2>1. r \in Wages /\ k \in ReportRows /\ k \in Rows
    BY <1>2, RowsSubset DEF SourcesOf, Ids, RowsOf, Controls
  <2>2. j.seen[r].status \in WageStatuses /\ record[r].status \in WageStatuses
    BY <2>1 DEF TypeOK, Kinds
  <2>3. j.seen[r] \in Records /\ record[r] \in Records
    BY DEF TypeOK
  <2> QED
    BY <2>1, <2>2, <2>3, ValueType
<1> QED
  BY <1>1, <1>2, ImpliedSame

\* When a run's job stays sound in a step of another actor.
LEMMA Survives ==
  ASSUME NEW m, NEW j, Sound(m, j), j.revision \in Nat,
         control[j.control].revision \in Nat,
         control'[j.control].revision \in Nat,
         control'[j.control].revision >= control[j.control].revision,
         Live(m, j)' => Live(m, j),
         Live(m, j)' \/ Unmoved(j)' =>
           \A r \in Ids, k \in RowsOf(j.control) :
             Value(k, record'[r]) = Value(k, record[r]),
         Live(m, j)' => \A k \in RowsOf(j.control) : total'[k] = total[k]
  PROVE  Sound(m, j)'
<1>1. Unmoved(j)' => Unmoved(j)
  BY DEF Unmoved, Sound, Stage
<1>2. SeenStands(m, j)'
  <2>1. SourcesOf(j.control) \subseteq Ids
    BY DEF SourcesOf, Ids
  <2> QED
    BY <1>1, <2>1 DEF SeenStands, Sound
<1>3. ComparedStand(m, j)'
  <2>1. ComparedRows(j) \subseteq RowsOf(j.control)
    BY DEF ComparedRows
  <2> QED
    BY <2>1 DEF ComparedStand, Sound, ComparedRows, RowsOf
<1>4. Stage(j)'
  BY DEF Stage, Sound, ComparedRows
<1> QED
  BY <1>2, <1>3, <1>4 DEF Sound
\* From the jobs after a step to the invariant after it.
LEMMA HoldsAfter ==
  ASSUME NEW m, NEW q, q = job'[m], Sound(m, q)'
  PROVE  Sound(m, job[m])'
<1>1. q = (job[m])'
  OBVIOUS
<1> QED
  BY <1>1 DEF Sound, SeenStands, ComparedStand, Stage, Unmoved, Live, ComparedRows

LEMMA Together ==
  ASSUME TypeOK',
         \A m \in Invocations : \A q : q = job'[m] /\ q # Idle => Sound(m, q)'
  PROVE  IInv'
<1>1. ASSUME NEW m \in Invocations, (job[m] # Idle)'
      PROVE  Sound(m, job[m])'
  <2>1. PICK q : q = job'[m]
    OBVIOUS
  <2>2. q # Idle
    BY <1>1, <2>1 DEF Idle
  <2> QED
    BY <2>1, <2>2, HoldsAfter
<1> QED
  BY <1>1 DEF IInv

\* A step that only changes one run.
LEMMA RunStep ==
  ASSUME IInv, NEW i \in Invocations, NEW j \in Jobs, Do(i, j),
         UNCHANGED << record, total, control >>,
         j # Idle => Sound(i, j)
  PROVE  IInv'
<1>1. TypeOK'
  BY DEF IInv, TypeOK, Do
<1>2. ASSUME NEW m \in Invocations, NEW q, q = job'[m], q # Idle
      PROVE  Sound(m, q)'
  <2>1. Sound(m, q)
    BY <1>2 DEF IInv, TypeOK, Do
  <2> QED
    BY <2>1 DEF Sound, SeenStands, ComparedStand, Stage, Unmoved, Live, ComparedRows
<1> QED
  BY <1>1, <1>2, Together

LEMMA InitIInv == Init => IInv
<1> SUFFICES ASSUME Init PROVE IInv
  OBVIOUS
<1>1. record \in [Ids -> Records] /\ Kinds(record)
  BY RepairAssumption DEF Init
<1>2. total \in [Rows -> Int]
  <2>1. PICK K : total = [k \in Rows |-> Implied(k, record) + IF k \in K THEN 1 ELSE 0]
    BY DEF Init
  <2>2. \A k \in Rows : Implied(k, record) \in Int
    BY <1>1, ImpliedType
  <2> QED
    BY <2>1, <2>2
<1>3. TypeOK
  BY <1>1, <1>2 DEF Init, TypeOK, Idle, Jobs
<1> QED
  BY <1>3 DEF Init, IInv

LEMMA StartStep ==
  ASSUME IInv, NEW i \in Invocations, NEW c \in Controls, NEW leased \in BOOLEAN,
         StartRepair(i, c, leased)
  PROVE  IInv'
<1> DEFINE j == [op |-> IF leased THEN "claim" ELSE "read", control |-> c,
                 leased |-> leased, live |-> FALSE, late |-> FALSE,
                 revision |-> control[c].revision, left |-> SourcesOf(c),
                 seen |-> [r \in Ids |-> NoRecord], differs |-> {}]
<1>1. j \in Jobs
  <2>1. SourcesOf(c) \subseteq Ids
    BY DEF SourcesOf, Ids
  <2> QED
    BY <2>1 DEF Jobs, IInv, TypeOK, Records, NoRecord, WageStatuses
<1>2. Sound(i, j)
  <2>1. Kinds(j.seen)
    BY DEF Kinds, Ids, NoRecord, ExpenseStatuses, WageStatuses
  <2> QED
    BY <2>1 DEF Sound, SeenStands, ComparedStand, Stage, ComparedRows, IInv, TypeOK
<1> QED
  BY <1>1, <1>2, RunStep DEF StartRepair

\* The job of a run at work is sound and has its types.
LEMMA AtWork ==
  ASSUME IInv, NEW i \in Invocations, job[i].op # "idle"
  PROVE  job[i] # Idle /\ job[i] \in Jobs /\ Sound(i, job[i])
BY DEF IInv, TypeOK, Idle

LEMMA ReadRecordStep ==
  ASSUME IInv, NEW i \in Invocations, NEW r \in Ids, ReadRecord(i, r)
  PROVE  IInv'
<1>1. PICK j : j = job[i]
  OBVIOUS
<1>2. j # Idle /\ j \in Jobs /\ Sound(i, j) /\ j.op = "read" /\ r \in j.left
  BY <1>1, AtWork DEF ReadRecord
<1>3. PICK op \in {"read", "extend"}, live \in BOOLEAN :
        Do(i, [j EXCEPT !.op = op, !.left = j.left \ {r}, !.seen[r] = record[r],
                        !.live = live])
  <2>1. Live(i, j) \in BOOLEAN
    BY DEF Live
  <2> QED
    BY <1>1, <2>1 DEF ReadRecord
<1> DEFINE seen == [j.seen EXCEPT ![r] = record[r]]
           q == [j EXCEPT !.op = op, !.left = j.left \ {r}, !.seen = seen,
                        !.live = live]
<1>4. record[r] \in Records /\ seen \in [Ids -> Records]
  BY <1>2, JobFields DEF IInv, TypeOK
<1>5. q \in Jobs /\ Do(i, q)
  BY <1>2, <1>3, <1>4 DEF Jobs
<1>6. /\ q # Idle /\ q.op = op /\ q.left = j.left \ {r} /\ q.seen = seen
      /\ q.control = j.control /\ q.leased = j.leased /\ q.revision = j.revision
      /\ q.differs = j.differs /\ q.late = j.late
  BY <1>2 DEF Jobs, Idle
<1>7. SeenStands(i, q)
  <2>1. ASSUME (~q.late /\ Live(i, q)) \/ Unmoved(q),
               NEW s \in SourcesOf(q.control) \ q.left, NEW k \in RowsOf(q.control)
        PROVE  Value(k, q.seen[s]) = Value(k, record[s])
    <3>1. CASE s = r
      <4>1. SourcesOf(q.control) \subseteq Ids
        BY DEF SourcesOf, Ids
      <4> QED
        BY <3>1, <4>1, <1>2, <1>6, JobFields
    <3>2. CASE s # r
      <4>1. s \in Ids /\ s \in SourcesOf(j.control) \ j.left
        BY <3>2, <2>1, <1>6 DEF SourcesOf, Ids
      <4>2. seen[s] = j.seen[s]
        BY <3>2, <4>1, <1>2, JobFields
      <4>3. (~j.late /\ Live(i, j)) \/ Unmoved(j)
        BY <2>1, <1>6 DEF Live, Unmoved
      <4> QED
        BY <4>1, <4>2, <4>3, <2>1, <1>2, <1>6 DEF Sound, SeenStands
    <3> QED
      BY <3>1, <3>2
  <2> QED
    BY <2>1 DEF SeenStands
<1>8. ComparedRows(j) = {} /\ ComparedRows(q) = {}
  BY <1>2, <1>6 DEF ComparedRows
<1>9. ComparedStand(i, q) /\ Stage(q)
  <2>1. Kinds(q.seen)
    <3>1. Kinds(j.seen) /\ Kinds(record) /\ j.seen \in [Ids -> Records]
      BY <1>2, JobFields DEF Sound, Stage, IInv, TypeOK
    <3> QED
      BY <3>1, <1>6 DEF Kinds, Ids
  <2> QED
    BY <2>1, <1>2, <1>6, <1>8 DEF ComparedStand, Live, Stage, Sound
<1> HIDE DEF q
<1> QED
  BY <1>5, <1>7, <1>9, RunStep DEF ReadRecord, Sound

LEMMA ReadTotalsStep ==
  ASSUME IInv, NEW i \in Invocations, ReadTotals(i)
  PROVE  IInv'
<1>1. PICK j : j = job[i]
  OBVIOUS
<1>2. j # Idle /\ j \in Jobs /\ Sound(i, j) /\ j.op = "read" /\ j.left = {}
  BY <1>1, AtWork DEF ReadTotals
<1> DEFINE K == RowsOf(j.control) \ {"wages"}
           q == [j EXCEPT !.op = "verify", !.differs = Differing(j, K)]
<1>3. Differing(j, K) \subseteq K /\ K \subseteq Rows
  BY <1>2, JobFields, RowsSubset DEF Differing
<1>4. q \in Jobs /\ Do(i, q)
  BY <1>1, <1>2, <1>3 DEF Jobs, ReadTotals
<1>5. /\ q.op = "verify" /\ q.differs = Differing(j, K) /\ q.left = j.left
      /\ q.seen = j.seen /\ q.control = j.control /\ q.leased = j.leased
      /\ q.revision = j.revision /\ q.late = j.late
  BY <1>2 DEF Jobs, Idle
<1>6. ComparedRows(q) = K
  BY <1>5 DEF ComparedRows
<1>7. \A k \in K \ q.differs : total[k] = Implied(k, q.seen)
  BY <1>5 DEF Differing
<1> HIDE DEF q, K
<1>8. SeenStands(i, q)
  BY <1>2, <1>5 DEF Sound, SeenStands, Live, Unmoved
<1>9. ComparedStand(i, q) /\ Stage(q)
  BY <1>2, <1>3, <1>5, <1>6, <1>7 DEF ComparedStand, Live, Stage, Sound
<1> QED
  BY <1>4, <1>8, <1>9, RunStep DEF ReadTotals, Sound

LEMMA VerifyStep ==
  ASSUME IInv, NEW i \in Invocations, Verify(i)
  PROVE  IInv'
<1>1. PICK j : j = job[i]
  OBVIOUS
<1>2. j # Idle /\ j \in Jobs /\ Sound(i, j) /\ j.op = "verify"
  BY <1>1, AtWork DEF Verify
<1> DEFINE op == IF j.control = "project" THEN "wages" ELSE "write"
           live == j.control # "project" /\ Live(i, j)
           q == [j EXCEPT !.op = op, !.live = live]
<1>3. q \in Jobs /\ Do(i, q)
  <2>1. live \in BOOLEAN
    OBVIOUS
  <2> QED
    BY <1>1, <1>2, <2>1 DEF Jobs, Verify
<1>4. /\ q.op = op /\ q.differs = j.differs /\ q.left = j.left
      /\ q.seen = j.seen /\ q.control = j.control /\ q.leased = j.leased
      /\ q.revision = j.revision /\ q.late = j.late
  BY <1>2 DEF Jobs, Idle
<1>5. ComparedRows(q) = ComparedRows(j)
  BY <1>2, <1>4, JobFields DEF ComparedRows, RowsOf, ProjectRows, ReportRows
<1> HIDE DEF q
<1>6. SeenStands(i, q)
  BY <1>2, <1>4 DEF Sound, SeenStands, Live, Unmoved
<1>7. ComparedStand(i, q) /\ Stage(q)
  BY <1>2, <1>4, <1>5 DEF ComparedStand, Live, Stage, Sound
<1> QED
  BY <1>3, <1>6, <1>7, RunStep DEF Verify, Sound

LEMMA ReadWagesStep ==
  ASSUME IInv, NEW i \in Invocations, ReadWages(i)
  PROVE  IInv'
<1>1. PICK j : j = job[i]
  OBVIOUS
<1>2. j # Idle /\ j \in Jobs /\ Sound(i, j) /\ j.op = "wages" /\ j.control = "project"
  BY <1>1, AtWork DEF ReadWages, Sound, Stage
<1> DEFINE D == Differing(j, {"wages"})
           q == [j EXCEPT !.op = "write", !.live = Live(i, j),
                        !.differs = j.differs \cup D]
<1>3. D \subseteq {"wages"} /\ "wages" \in RowsOf(j.control) /\ "wages" \in Rows
  BY <1>2 DEF Differing, RowsOf, ProjectRows, Rows
<1>4. q \in Jobs /\ Do(i, q)
  <2>1. Do(i, q)
    BY <1>1 DEF ReadWages
  <2>2. j.differs \cup D \in SUBSET Rows
    BY <1>2, <1>3, JobFields
  <2>3. Live(i, j) \in BOOLEAN
    BY DEF Live
  <2> HIDE DEF D
  <2>4. q \in Jobs
    BY <1>2, <2>2, <2>3 DEF Jobs
  <2> QED
    BY <2>1, <2>4
<1>5. /\ q.op = "write" /\ q.differs = j.differs \cup D /\ q.left = j.left
      /\ q.seen = j.seen /\ q.control = j.control /\ q.leased = j.leased
      /\ q.revision = j.revision /\ q.late = j.late
  BY <1>2 DEF Jobs, Idle
<1>6. ComparedRows(q) = ComparedRows(j) \cup {"wages"}
  BY <1>2, <1>3, <1>5 DEF ComparedRows
<1>7. "wages" \notin q.differs => total["wages"] = Implied("wages", q.seen)
  BY <1>5 DEF Differing
<1> HIDE DEF q, D
<1>8. SeenStands(i, q)
  BY <1>2, <1>5 DEF Sound, SeenStands, Live, Unmoved
<1>9. ComparedStand(i, q)
  BY <1>2, <1>5, <1>6, <1>7 DEF ComparedStand, Live, Sound
<1>10. Stage(q)
  BY <1>2, <1>3, <1>5, <1>6 DEF Stage, Sound
<1> QED
  BY <1>4, <1>8, <1>9, <1>10, RunStep DEF ReadWages, Sound

\* A step in which run i, at work before, becomes idle.
LEMMA AbandonStep ==
  ASSUME IInv, NEW i \in Invocations, Abandon(i)
  PROVE  IInv'
<1>1. Idle \in Jobs
  BY DEF Jobs
<1> QED
  BY <1>1, RunStep DEF Abandon

\* The jobs of the other runs, in a step of run i.
LEMMA OthersWork ==
  ASSUME IInv, NEW m \in Invocations, NEW q, q = job[m], q # Idle
  PROVE  /\ Sound(m, q) /\ q \in Jobs /\ q.revision \in Nat /\ q.control \in Controls
         /\ control[q.control].revision \in Nat
BY JobFields DEF IInv, TypeOK

LEMMA ClaimStep ==
  ASSUME IInv, NEW i \in Invocations, ClaimLease(i)
  PROVE  IInv'
<1>1. PICK j : j = job[i]
  OBVIOUS
<1>2. j # Idle /\ j \in Jobs /\ Sound(i, j) /\ j.op = "claim" /\ j.left = SourcesOf(j.control)
  BY <1>1, AtWork DEF ClaimLease, Sound, Stage
<1> DEFINE c == j.control
           q == [j EXCEPT !.op = "read"]
<1>3. q \in Jobs /\ Do(i, q)
  BY <1>1, <1>2 DEF Jobs, ClaimLease
<1>4. /\ q.op = "read" /\ q.differs = j.differs /\ q.left = j.left
      /\ q.seen = j.seen /\ q.control = c /\ q.leased = j.leased
      /\ q.revision = j.revision /\ q.late = j.late /\ c \in Controls
  BY <1>2, JobFields DEF Jobs, Idle
<1>5. PICK n : n = control[c]
  OBVIOUS
<1>6. n \in [owner: SUBSET Invocations, live: BOOLEAN, revision: Nat]
  BY <1>4, <1>5 DEF IInv, TypeOK
<1> DEFINE w == [n EXCEPT !.owner = {i}, !.live = TRUE]
<1>7. /\ w \in [owner: SUBSET Invocations, live: BOOLEAN, revision: Nat]
      /\ w.owner = {i} /\ w.live = TRUE /\ w.revision = n.revision
  BY <1>6
<1>8. control' = [control EXCEPT ![c] = w]
  BY <1>1, <1>5 DEF ClaimLease
<1> HIDE DEF w, q, c
<1>9. \A d \in Controls : control'[d] = IF d = c THEN w ELSE control[d]
  BY <1>4, <1>8 DEF IInv, TypeOK
<1>10. TypeOK'
  <2>1. job' \in [Invocations -> Jobs]
    BY <1>3 DEF IInv, TypeOK, Do
  <2>2. control' \in [Controls -> [owner: SUBSET Invocations, live: BOOLEAN, revision: Nat]]
    BY <1>7, <1>8 DEF IInv, TypeOK
  <2>3. \A d \in Controls : control'[d].live => control'[d].owner # {}
    BY <1>7, <1>9 DEF IInv, TypeOK
  <2> QED
    BY <2>1, <2>2, <2>3 DEF IInv, TypeOK, ClaimLease
<1>11. ASSUME NEW m \in Invocations, NEW p, p = job'[m], p # Idle
       PROVE  Sound(m, p)'
  <2>1. CASE m = i
    <3>1. p = q
      BY <2>1, <1>11, <1>3 DEF Do, IInv, TypeOK
    <3>2. ComparedRows(p) = {}
      BY <3>1, <1>4 DEF ComparedRows
    <3>3. j.differs = {} /\ j.revision <= n.revision
      BY <1>2, <1>5 DEF Sound, Stage, ComparedRows, c
    <3>4. control'[c].revision = n.revision
      BY <1>4, <1>7, <1>9
    <3>5. p.op = "read" /\ p.left = SourcesOf(p.control) /\ p.differs = {}
          /\ p.control = c /\ p.revision <= n.revision /\ Kinds(p.seen)
      BY <3>1, <3>3, <1>2, <1>4 DEF Sound, Stage, c
    <3>6. SeenStands(m, p)'
      BY <3>5 DEF SeenStands
    <3>7. ComparedStand(m, p)'
      BY <3>5 DEF ComparedStand, ComparedRows
    <3>8. Stage(p)'
      BY <3>4, <3>5 DEF Stage
    <3> QED
      BY <3>6, <3>7, <3>8 DEF Sound
  <2>2. CASE m # i
    <3>1. p = job[m]
      BY <2>2, <1>11, <1>3 DEF Do, IInv, TypeOK
    <3>2. /\ Sound(m, p) /\ p.revision \in Nat /\ p.control \in Controls
          /\ control[p.control].revision \in Nat
      BY <3>1, <1>11, OthersWork
    <3>3. Live(m, p)' => Live(m, p)
      BY <2>2, <3>2, <1>7, <1>9 DEF Live
    <3>4. control'[p.control].revision = control[p.control].revision
      BY <3>2, <1>5, <1>7, <1>9
    <3>5. record' = record /\ total' = total
      BY DEF ClaimLease
    <3>6. control'[p.control].revision >= control[p.control].revision
      BY <3>2, <3>4
    <3> QED
      BY <3>2, <3>3, <3>4, <3>5, <3>6, Survives
  <2> QED
    BY <2>1, <2>2
<1> QED
  BY <1>10, <1>11, Together

\* A step that ends a lease, or none, and leaves the totals alone: no run holds
\* a lease that it did not hold.
LEMMA LeaseEndStep ==
  ASSUME IInv, UNCHANGED << record, total >>,
         control' \in [Controls -> [owner: SUBSET Invocations, live: BOOLEAN,
                                    revision: Nat]],
         \A c \in Controls :
           /\ control'[c].revision = control[c].revision
           /\ control'[c].live => control'[c] = control[c],
         job' \in [Invocations -> Jobs],
         \A m \in Invocations : job'[m] \in {Idle, job[m]}
  PROVE  IInv'
<1>1. TypeOK'
  BY DEF IInv, TypeOK
<1>2. ASSUME NEW m \in Invocations, NEW p, p = job'[m], p # Idle
      PROVE  Sound(m, p)'
  <2>1. p = job[m]
    BY <1>2
  <2>2. /\ Sound(m, p) /\ p.revision \in Nat /\ p.control \in Controls
        /\ control[p.control].revision \in Nat
    BY <2>1, <1>2, OthersWork
  <2>3. Live(m, p)' => Live(m, p)
    BY <2>2 DEF Live
  <2> QED
    BY <2>2, <2>3, Survives
<1> QED
  BY <1>1, <1>2, Together

LEMMA LapseStep ==
  ASSUME IInv, NEW c \in Controls, Lapse(c)
  PROVE  IInv'
<1>1. PICK n : n = control[c]
  OBVIOUS
<1> DEFINE w == [n EXCEPT !.live = FALSE]
<1>2. /\ w \in [owner: SUBSET Invocations, live: BOOLEAN, revision: Nat]
      /\ w.revision = n.revision /\ w.live = FALSE
  BY <1>1 DEF IInv, TypeOK
<1>3. control' = [control EXCEPT ![c] = w]
  BY <1>1 DEF Lapse
<1> HIDE DEF w
<1>4. control' \in [Controls -> [owner: SUBSET Invocations, live: BOOLEAN, revision: Nat]]
  BY <1>2, <1>3 DEF IInv, TypeOK
<1>5. \A d \in Controls : /\ control'[d].revision = control[d].revision
                          /\ control'[d].live => control'[d] = control[d]
  BY <1>1, <1>2, <1>3 DEF IInv, TypeOK
<1>6. job' \in [Invocations -> Jobs] /\ \A m \in Invocations : job'[m] \in {Idle, job[m]}
  BY DEF Lapse, IInv, TypeOK
<1> QED
  BY <1>4, <1>5, <1>6, LeaseEndStep DEF Lapse

LEMMA FinishStep ==
  ASSUME IInv, NEW i \in Invocations, FinishRepair(i)
  PROVE  IInv'
<1>1. \A c \in Controls :
        LET f == Freed(i, c)
        IN  /\ f \in [owner: SUBSET Invocations, live: BOOLEAN, revision: Nat]
            /\ f.revision = control[c].revision
            /\ f.live => f = control[c]
  <2>1. ASSUME NEW n \in [owner: SUBSET Invocations, live: BOOLEAN, revision: Nat]
        PROVE  LET f == [n EXCEPT !.owner = {}, !.live = FALSE]
               IN  /\ f \in [owner: SUBSET Invocations, live: BOOLEAN, revision: Nat]
                   /\ f.revision = n.revision /\ f.live = FALSE
    OBVIOUS
  <2>2. TAKE c \in Controls
  <2>3. PICK n : n = control[c]
    OBVIOUS
  <2>4. n \in [owner: SUBSET Invocations, live: BOOLEAN, revision: Nat]
    BY <2>3 DEF IInv, TypeOK
  <2>5. Freed(i, c) \in {[n EXCEPT !.owner = {}, !.live = FALSE], n}
    BY <2>3 DEF Freed
  <2> QED
    BY <2>1, <2>3, <2>4, <2>5
<1> DEFINE F(c) == IF job[i].leased /\ c = job[i].control THEN Freed(i, c) ELSE control[c]
<1>2. control' = [c \in Controls |-> F(c)]
  BY DEF FinishRepair
<1>3. \A c \in Controls :
        /\ F(c) \in [owner: SUBSET Invocations, live: BOOLEAN, revision: Nat]
        /\ F(c).revision = control[c].revision
        /\ F(c).live => F(c) = control[c]
  BY <1>1 DEF IInv, TypeOK
<1> HIDE DEF F
<1>4. control' \in [Controls -> [owner: SUBSET Invocations, live: BOOLEAN, revision: Nat]]
  BY <1>2, <1>3
<1>5. \A c \in Controls : /\ control'[c].revision = control[c].revision
                          /\ control'[c].live => control'[c] = control[c]
  BY <1>2, <1>3
<1>6. job' \in [Invocations -> Jobs] /\ \A m \in Invocations : job'[m] \in {Idle, job[m]}
  BY DEF FinishRepair, IInv, TypeOK, Do, Jobs
<1> QED
  BY <1>4, <1>5, <1>6, LeaseEndStep DEF FinishRepair

LEMMA PostStep ==
  ASSUME IInv, NEW r \in Ids, NEW x \in New, PostRecord(r, x)
  PROVE  IInv'
<1>1. x \in Records /\ record' = [record EXCEPT ![r] = x] /\ job' = job
  BY RepairAssumption DEF New, Records, PostRecord
<1>2. \A s \in Ids : record'[s] = IF s = r THEN x ELSE record[s]
  BY <1>1 DEF IInv, TypeOK
<1>3. \A c \in Controls : c \notin Touched(r, x) =>
        /\ \A k \in RowsOf(c) : Value(k, x) = Value(k, record[r]) /\ total'[k] = total[k]
        /\ control'[c] = control[c]
  <2>1. SUFFICES ASSUME NEW c \in Controls, c \notin Touched(r, x), NEW k \in RowsOf(c)
                 PROVE  Value(k, x) = Value(k, record[r]) /\ total'[k] = total[k]
    BY DEF PostRecord
  <2>2. k \in Rows /\ Value(k, x) \in Int /\ Value(k, record[r]) \in Int
        /\ total[k] \in Int
    BY <1>1, RowsSubset, ValueType DEF IInv, TypeOK
  <2>3. Value(k, x) - Value(k, record[r]) = 0
    BY <2>1 DEF Touched, Delta
  <2>4. total'[k] = total[k] + (Value(k, x) - Value(k, record[r]))
    BY <2>2 DEF PostRecord, Delta
  <2> QED
    BY <2>2, <2>3, <2>4
<1>4. ASSUME NEW c \in Touched(r, x)
      PROVE  /\ ~control[c].live /\ ~control'[c].live
             /\ control'[c].owner = control[c].owner
             /\ control'[c].revision = control[c].revision + 1
             /\ control'[c] \in [owner: SUBSET Invocations, live: BOOLEAN, revision: Nat]
  <2>1. c \in Controls /\ ~control[c].live
    BY DEF PostRecord, Touched, Unlocked
  <2>2. PICK n : n = control[c]
    OBVIOUS
  <2>3. n \in [owner: SUBSET Invocations, live: BOOLEAN, revision: Nat]
    BY <2>1, <2>2 DEF IInv, TypeOK
  <2>4. control'[c] = [n EXCEPT !.revision = @ + 1]
    BY <2>1, <2>2 DEF PostRecord
  <2> QED
    BY <2>1, <2>2, <2>3, <2>4
<1>5. control' \in [Controls -> [owner: SUBSET Invocations, live: BOOLEAN, revision: Nat]]
  <2>1. \A c \in Controls :
          control'[c] \in [owner: SUBSET Invocations, live: BOOLEAN, revision: Nat]
    BY <1>3, <1>4 DEF IInv, TypeOK
  <2>2. DOMAIN control' = Controls /\ control' = [c \in Controls |-> control'[c]]
    BY DEF PostRecord
  <2> QED
    BY <2>1, <2>2
<1>6. TypeOK'
  <2>1. \A c \in Controls : control'[c].live => control'[c].owner # {}
    BY <1>3, <1>4 DEF IInv, TypeOK
  <2>2. record' \in [Ids -> Records]
    BY <1>1 DEF IInv, TypeOK
  <2>3. Kinds(record')
    <3>1. Kinds(record)
      BY DEF IInv, TypeOK
    <3>2. /\ r \in Expenses => x.status \in ExpenseStatuses
          /\ r \in Wages => x.status \in WageStatuses
      BY <3>1, RepairAssumption
      DEF PostRecord, ExpensePut, WagePut, Transition, Kinds, ExpenseStatuses, WageStatuses
    <3> QED
      BY <1>2, <3>1, <3>2 DEF Kinds, Ids
  <2>4. total' \in [Rows -> Int]
    <3>1. \A k \in Rows : total[k] + Delta(k, r, x) \in Int
      BY <1>1, ValueType DEF Delta, IInv, TypeOK
    <3> QED
      BY <3>1 DEF PostRecord
  <2>5. Kinds(record)'
    BY <2>3 DEF Kinds
  <2> QED
    BY <1>1, <1>5, <2>1, <2>2, <2>4, <2>5 DEF IInv, TypeOK
<1>7. ASSUME NEW m \in Invocations, NEW p, p = job'[m], p # Idle
      PROVE  Sound(m, p)'
  <2>1. p = job[m]
    BY <1>1, <1>7
  <2>2. /\ Sound(m, p) /\ p.revision \in Nat /\ p.control \in Controls
        /\ control[p.control].revision \in Nat
    BY <2>1, <1>7, OthersWork
  <2>3. CASE p.control \in Touched(r, x)
    <3>1. ~Live(m, p)'
      BY <2>3, <1>4 DEF Live
    <3>2. ~Unmoved(p)'
      BY <2>2, <2>3, <1>4 DEF Unmoved, Sound, Stage
    <3>3. /\ control'[p.control].revision >= control[p.control].revision
          /\ control'[p.control].revision \in Nat
      BY <2>2, <2>3, <1>4
    <3> QED
      BY <2>2, <3>1, <3>2, <3>3, Survives
  <2>4. CASE p.control \notin Touched(r, x)
    <3>1. control'[p.control] = control[p.control]
      BY <2>2, <2>4, <1>3
    <3>2. Live(m, p)' => Live(m, p)
      BY <3>1 DEF Live
    <3>3. \A s \in Ids, k \in RowsOf(p.control) :
            Value(k, record'[s]) = Value(k, record[s]) /\ total'[k] = total[k]
      BY <2>2, <2>4, <1>2, <1>3
    <3>4. control'[p.control].revision >= control[p.control].revision
      BY <2>2, <3>1
    <3> QED
      BY <2>2, <3>1, <3>2, <3>3, <3>4, Survives
  <2> QED
    BY <2>3, <2>4
<1> QED
  BY <1>6, <1>7, Together

\* What extending a lease changes.
LEMMA ExtendedLease ==
  ASSUME TypeOK, NEW c \in Controls, control' = Extended(c)
  PROVE  /\ control' \in [Controls -> [owner: SUBSET Invocations, live: BOOLEAN,
                                        revision: Nat]]
         /\ control'[c].live /\ control'[c].owner = control[c].owner
         /\ control'[c].revision = control[c].revision
         /\ \A d \in Controls : d # c => control'[d] = control[d]
<1>1. PICK n : n = control[c]
  OBVIOUS
<1> DEFINE w == [n EXCEPT !.live = TRUE]
<1>2. /\ w \in [owner: SUBSET Invocations, live: BOOLEAN, revision: Nat]
      /\ w.owner = n.owner /\ w.live = TRUE /\ w.revision = n.revision
  BY <1>1 DEF TypeOK
<1>3. control' = [control EXCEPT ![c] = w]
  BY <1>1 DEF Extended
<1> HIDE DEF w
<1> QED
  BY <1>1, <1>2, <1>3 DEF TypeOK

\* A write that extends the lease of run i leaves every other run's job sound.
LEMMA OwnedStep ==
  ASSUME IInv, NEW i \in Invocations, NEW c \in Controls, control[c].owner = {i},
         control' = Extended(c), record' = record, total' \in [Rows -> Int],
         \A k \in Rows : k \notin RowsOf(c) => total'[k] = total[k],
         NEW j \in Jobs, Do(i, j), Sound(i, j)'
  PROVE  IInv'
<1>1. TypeOK
  BY DEF IInv
<1>2. /\ control' \in [Controls -> [owner: SUBSET Invocations, live: BOOLEAN,
                                      revision: Nat]]
      /\ control'[c].owner = {i} /\ control'[c].revision = control[c].revision
      /\ \A d \in Controls : d # c => control'[d] = control[d]
  BY <1>1, ExtendedLease
<1>3. TypeOK'
  <2>1. job' \in [Invocations -> Jobs]
    BY DEF IInv, TypeOK, Do
  <2>2. \A d \in Controls : control'[d].live => control'[d].owner # {}
    BY <1>2 DEF IInv, TypeOK
  <2> QED
    BY <1>2, <2>1, <2>2 DEF IInv, TypeOK, Kinds
<1>4. ASSUME NEW m \in Invocations, NEW p, p = job'[m], p # Idle
      PROVE  Sound(m, p)'
  <2>1. CASE m = i
    <3>1. p = j
      BY <2>1, <1>4 DEF Do, IInv, TypeOK
    <3> QED
      BY <2>1, <3>1
  <2>2. CASE m # i
    <3>1. p = job[m]
      BY <2>2, <1>4 DEF Do, IInv, TypeOK
    <3>2. /\ Sound(m, p) /\ p.revision \in Nat /\ p.control \in Controls
          /\ control[p.control].revision \in Nat
      BY <3>1, <1>4, OthersWork
    <3>3. Live(m, p)' => p.control # c
      BY <2>2, <1>2 DEF Live
    <3>4. Live(m, p)' => Live(m, p)
      BY <3>2, <3>3, <1>2 DEF Live
    <3>5. Live(m, p)' => \A k \in RowsOf(p.control) : total'[k] = total[k]
      <4>1. p.control # c => \A k \in RowsOf(p.control) : k \in Rows /\ k \notin RowsOf(c)
        BY <3>2, RowsSubset DEF Controls
      <4> QED
        BY <4>1, <3>3
    <3>6. /\ control'[p.control].revision \in Nat
          /\ control'[p.control].revision >= control[p.control].revision
      BY <3>2, <1>2
    <3> QED
      BY <3>2, <3>4, <3>5, <3>6, Survives
  <2> QED
    BY <2>1, <2>2
<1> QED
  BY <1>3, <1>4, Together

LEMMA ExtendStep ==
  ASSUME IInv, NEW i \in Invocations, ExtendLease(i)
  PROVE  IInv'
<1>1. PICK j : j = job[i]
  OBVIOUS
<1>2. j # Idle /\ j \in Jobs /\ Sound(i, j) /\ j.op = "extend"
  BY <1>1, AtWork DEF ExtendLease
<1>3. PICK late \in BOOLEAN : late = Late(i)
  BY DEF Late
<1> DEFINE q == [j EXCEPT !.op = "read", !.live = FALSE, !.late = late]
<1>4. q \in Jobs /\ Do(i, q)
  BY <1>1, <1>2, <1>3 DEF Jobs, ExtendLease
<1>5. /\ q.op = "read" /\ q.differs = j.differs /\ q.left = j.left
      /\ q.seen = j.seen /\ q.control = j.control /\ q.leased = j.leased
      /\ q.revision = j.revision /\ q.late = late /\ j.control \in Controls
  BY <1>2, JobFields DEF Jobs, Idle
<1>6. ~late => ~j.late /\ Live(i, j)
  BY <1>1, <1>3 DEF Late
<1>7. /\ control[j.control].owner = {i} /\ control' = Extended(j.control)
      /\ record' = record /\ total' = total
  BY <1>1 DEF ExtendLease, Held
<1>8. control'[j.control].revision = control[j.control].revision
  BY <1>5, <1>7, ExtendedLease DEF IInv
<1> HIDE DEF q
<1>9. SeenStands(i, q)'
  BY <1>2, <1>5, <1>6, <1>7, <1>8 DEF Sound, SeenStands, Unmoved
<1>10. ComparedStand(i, q)' /\ Stage(q)'
  BY <1>2, <1>5, <1>8 DEF ComparedStand, ComparedRows, Stage, Sound
<1>11. total' \in [Rows -> Int] /\ \A k \in Rows : total'[k] = total[k]
  BY <1>7 DEF IInv, TypeOK
<1> QED
  BY <1>4, <1>5, <1>7, <1>9, <1>10, <1>11, OwnedStep DEF Sound

\* What a batch writes in time is what the records imply now, although they were
\* read before.
LEMMA WrittenCurrent ==
  ASSUME IInv, NEW i \in Invocations, NEW k \in Rows, WriteRow(i, k), ~Late(i)
  PROVE  Implied(k, job[i].seen) = Implied(k, record)
<1>1. PICK j : j = job[i]
  OBVIOUS
<1>2. j # Idle /\ j \in Jobs /\ Sound(i, j) /\ j.op = "write" /\ k \in j.differs
  BY <1>1, AtWork DEF WriteRow
<1>3. /\ SeenStands(i, j) /\ j.left = {} /\ k \in RowsOf(j.control) /\ Kinds(j.seen)
      /\ j.control \in Controls /\ j.seen \in [Ids -> Records]
  BY <1>2, JobFields DEF Sound, Stage, ComparedRows
<1>4. ~j.late /\ Live(i, j)
  BY <1>1 DEF Late
<1> QED
  BY <1>1, <1>3, <1>4, SeenImplied DEF IInv

LEMMA WriteStep ==
  ASSUME IInv, NEW i \in Invocations, NEW k \in Rows, WriteRow(i, k)
  PROVE  IInv'
<1>1. PICK j : j = job[i]
  OBVIOUS
<1>2. j # Idle /\ j \in Jobs /\ Sound(i, j) /\ j.op = "write" /\ k \in j.differs
  BY <1>1, AtWork DEF WriteRow
<1>3. PICK late \in BOOLEAN : late = Late(i)
  BY DEF Late
<1> DEFINE D == j.differs \ {k}
           q == [j EXCEPT !.differs = D, !.live = TRUE, !.late = late]
<1>4. D \in SUBSET Rows /\ k \in RowsOf(j.control) /\ j.control \in Controls
  BY <1>2, JobFields DEF Sound, Stage, ComparedRows
<1>5. q \in Jobs
  <2> HIDE DEF D
  <2> QED
    BY <1>2, <1>4 DEF Jobs
<1>6. /\ q.op = "write" /\ q.differs = D /\ q.left = j.left
      /\ q.seen = j.seen /\ q.control = j.control /\ q.leased = j.leased
      /\ q.revision = j.revision /\ q.late = late
  BY <1>2 DEF Jobs, Idle
<1>7. /\ Do(i, q) /\ record' = record /\ control' = Extended(j.control)
      /\ control[j.control].owner = {i}
      /\ total' = [total EXCEPT ![k] = Implied(k, j.seen)]
  BY <1>1, <1>3 DEF WriteRow, Held
<1>8. ~late => ~j.late /\ Live(i, j)
  BY <1>1, <1>3 DEF Late
<1> HIDE DEF q
<1>9. total' \in [Rows -> Int]
      /\ \A l \in Rows : total'[l] = IF l = k THEN Implied(k, j.seen) ELSE total[l]
  <2>1. Implied(k, j.seen) \in Int
    BY <1>2, JobFields, ImpliedType
  <2> QED
    BY <1>7, <2>1 DEF IInv, TypeOK
<1>10. control'[j.control].revision = control[j.control].revision
  BY <1>4, <1>7, ExtendedLease DEF IInv
<1>11. SeenStands(i, q)'
  BY <1>2, <1>6, <1>7, <1>8, <1>10 DEF Sound, SeenStands, Unmoved
<1>12. ComparedStand(i, q)'
  <2>1. ~late => \A l \in RowsOf(j.control) \ j.differs : total[l] = Implied(l, j.seen)
    BY <1>2, <1>8 DEF Sound, ComparedStand, ComparedRows
  <2> QED
    BY <2>1, <1>4, <1>6, <1>9, RowsSubset DEF ComparedStand, ComparedRows
<1>13. Stage(q)'
  BY <1>2, <1>6, <1>10 DEF Sound, Stage, ComparedRows
<1>14. \A l \in Rows : l \notin RowsOf(j.control) => total'[l] = total[l]
  BY <1>4, <1>9
<1> QED
  BY <1>4, <1>5, <1>7, <1>9, <1>11, <1>12, <1>13, <1>14, OwnedStep DEF Sound

LEMMA StutterStep ==
  ASSUME IInv, UNCHANGED vars
  PROVE  IInv'
<1>1. TypeOK'
  BY DEF vars, IInv, TypeOK, Kinds
<1>2. ASSUME NEW m \in Invocations, NEW p, p = job'[m], p # Idle
      PROVE  Sound(m, p)'
  <2>1. Sound(m, p)
    BY <1>2 DEF vars, IInv
  <2> QED
    BY <2>1 DEF vars, Sound, SeenStands, ComparedStand, Stage, Unmoved, Live, ComparedRows
<1> QED
  BY <1>1, <1>2, Together

LEMMA StepIInv == IInv /\ [Next]_vars => IInv'
<1> SUFFICES ASSUME IInv, [Next]_vars PROVE IInv'
  OBVIOUS
<1>1. CASE \E r \in Ids, x \in New : PostRecord(r, x)
  BY <1>1, PostStep
<1>2. ASSUME NEW i \in Invocations, Repair(i)
      PROVE  IInv'
  BY <1>2, StartStep, ClaimStep, ReadRecordStep, ExtendStep, ReadTotalsStep, VerifyStep,
     ReadWagesStep, WriteStep, FinishStep, AbandonStep DEF Repair
<1>3. CASE \E c \in Controls : Lapse(c)
  BY <1>3, LapseStep
<1>4. CASE UNCHANGED vars
  BY <1>4, StutterStep
<1> QED
  BY <1>1, <1>2, <1>3, <1>4 DEF Next

LEMMA Invariant == Spec => []IInv
BY InitIInv, StepIInv, PTL DEF Spec

-----------------------------------------------------------------------------
\* Records, control items and runs always have their types, and a live lease
\* its owner.
THEOREM TypeCorrect == Spec => []TypeOK
<1>1. IInv => TypeOK
  BY DEF IInv
<1> QED
  BY <1>1, Invariant, PTL

\* However postings, lapsing leases and other repairs, late ones among them, are
\* interleaved with it, a repair that wrote in time and holds its lease at the
\* end leaves no total that differs from the records.
THEOREM RepairsComplete == Spec => []RepairComplete
<1>1. IInv => RepairComplete
  <2> SUFFICES ASSUME IInv, NEW i \in Invocations, job[i].op = "write", ~job[i].late,
                      job[i].differs = {}, Live(i, job[i]),
                      NEW k \in RowsOf(job[i].control)
               PROVE  total[k] = Implied(k, record)
    BY DEF RepairComplete
  <2>1. PICK j : j = job[i]
    OBVIOUS
  <2>2. Sound(i, j) /\ j.op = "write" /\ j.differs = {} /\ j.control \in Controls
        /\ j.seen \in [Ids -> Records]
    BY <2>1, AtWork, JobFields
  <2>3. SeenStands(i, j) /\ j.left = {} /\ Kinds(j.seen)
    BY <2>2 DEF Sound, Stage
  <2>4. Implied(k, j.seen) = Implied(k, record)
    BY <2>1, <2>2, <2>3, SeenImplied DEF IInv
  <2>5. total[k] = Implied(k, j.seen)
    BY <2>1, <2>2 DEF Sound, ComparedStand, ComparedRows
  <2> QED
    BY <2>4, <2>5
<1> QED
  BY <1>1, Invariant, PTL

-----------------------------------------------------------------------------
\* The sum that Ledger speaks of is the one the totals are made of.
LEMMA SameSum ==
  ASSUME NEW S, NEW f
  PROVE  Abstract!Sum(S, f) = Sum(S, f)
BY DEF Abstract!Sum, Sum, Abstract!MapThenSumSet, MapThenSumSet,
       Abstract!MapThenFoldSet, MapThenFoldSet

\* A record is worth to a row what it contributes to it.
LEMMA WorthIsValue ==
  ASSUME NEW k \in Rows, NEW x \in Records
  PROVE  Abstract!Worth(k, x) = Value(k, x)
BY DEF Abstract!Worth, Abstract!Counts, Value, Contribution, WorkerContribution,
       Records, ExpenseStatuses, WageStatuses, Rows, ProjectRows, ReportRows

\* By how much a total is off from the records.
LEMMA OffIsDistance ==
  ASSUME TypeOK, NEW k \in Rows
  PROVE  Abstract!Off(k) = total[k] - Implied(k, record)
<1>1. \A r \in Ids : Abstract!Worth(k, record[r]) = Value(k, record[r])
  BY WorthIsValue DEF TypeOK
<1>2. [r \in Ids |-> Abstract!Worth(k, record[r])] = [r \in Ids |-> Value(k, record[r])]
  BY <1>1
<1> QED
  BY <1>2, SameSum DEF Abstract!Off, Implied

LEMMA OffIsDistanceAfter ==
  ASSUME TypeOK', NEW k \in Rows
  PROVE  Abstract!Off(k)' = total'[k] - Implied(k, record')
<1>1. \A r \in Ids : Abstract!Worth(k, record'[r]) = Value(k, record'[r])
  BY WorthIsValue DEF TypeOK
<1>2. [r \in Ids |-> Abstract!Worth(k, record'[r])] = [r \in Ids |-> Value(k, record'[r])]
  BY <1>1
<1> QED
  BY <1>2, SameSum DEF Abstract!Off, Implied

\* The deltas of a posting: what the records imply moves as the totals do.
LEMMA DeltaMoves ==
  ASSUME TypeOK, TypeOK', NEW r \in Ids, NEW x \in New, PostRecord(r, x), NEW k \in Rows
  PROVE  Implied(k, record') = Implied(k, record) + Delta(k, r, x)
<1> DEFINE f == [s \in Ids |-> Value(k, record[s])]
           h == [s \in Ids |-> Value(k, record'[s])]
<1>1. record' = [record EXCEPT ![r] = x]
  BY DEF PostRecord
<1>2. \A s \in Ids : f[s] \in Int /\ h[s] \in Int
  BY ValueType DEF TypeOK
<1>3. \A s \in Ids \ {r} : h[s] = f[s]
  BY <1>1 DEF TypeOK
<1>4. f[r] = Value(k, record[r]) /\ h[r] = Value(k, x)
  BY <1>1 DEF TypeOK
<1>5. IsFiniteSet(Ids)
  BY RepairAssumption
<1>6. Sum(Ids, f) \in Int
  BY <1>2, <1>5, SumType
<1>7. Implied(k, record) = Sum(Ids, f) /\ Implied(k, record') = Sum(Ids, h)
  BY DEF Implied
<1> HIDE DEF f, h
<1>8. Sum(Ids, h) = Sum(Ids, f) - f[r] + h[r]
  BY <1>2, <1>3, <1>5, SumUpdate
<1> QED
  BY <1>2, <1>4, <1>6, <1>7, <1>8 DEF Delta

LEMMA PostLedger ==
  ASSUME IInv, IInv', NEW r \in Ids, NEW x \in New, PostRecord(r, x)
  PROVE  Abstract!Post(r)
<1>1. TypeOK /\ TypeOK'
  BY DEF IInv
<1>2. record' = [record EXCEPT ![r] = record'[r]]
  BY <1>1 DEF PostRecord, TypeOK
<1>3. DOMAIN total' = DOMAIN Abstract!Counts
  BY <1>1 DEF TypeOK, Abstract!Counts, Rows, ProjectRows, ReportRows
<1>4. ASSUME NEW k \in Rows
      PROVE  Abstract!Off(k)' = Abstract!Off(k)
  <2>1. Implied(k, record') = Implied(k, record) + Delta(k, r, x)
    BY <1>1, DeltaMoves
  <2>2. total'[k] = total[k] + Delta(k, r, x)
    BY DEF PostRecord
  <2>3. Implied(k, record) \in Int /\ total[k] \in Int /\ Delta(k, r, x) \in Int
    <3>1. x \in Records /\ record[r] \in Records
      BY <1>1, RepairAssumption DEF New, Records, TypeOK
    <3>2. Value(k, x) \in Nat /\ Value(k, record[r]) \in Nat
      BY <3>1, ValueType
    <3> QED
      BY <1>1, <3>2, ImpliedType DEF TypeOK, Delta
  <2> QED
    BY <1>1, <2>1, <2>2, <2>3, OffIsDistance, OffIsDistanceAfter
<1>5. DOMAIN Abstract!Counts = Rows
  BY DEF Abstract!Counts, Rows, ProjectRows, ReportRows
<1> QED
  BY <1>2, <1>3, <1>4, <1>5 DEF Abstract!Post

LEMMA WriteLedger ==
  ASSUME IInv, IInv', NEW i \in Invocations, NEW k \in Rows, WriteRow(i, k)
  PROVE  Abstract!Mend(k)
<1>1. TypeOK /\ TypeOK'
  BY DEF IInv
<1>2. record' = record /\ total' = [total EXCEPT ![k] = Implied(k, job[i].seen)]
  BY DEF WriteRow
<1>3. total' = [total EXCEPT ![k] = total'[k]]
  BY <1>1, <1>2 DEF TypeOK
<1>4. CASE ~Late(i)
  <2>1. Implied(k, job[i].seen) = Implied(k, record)
    BY <1>4, WrittenCurrent
  <2>2. total'[k] = Implied(k, record')
    BY <1>1, <1>2, <2>1 DEF TypeOK
  <2>3. total'[k] \in Int
    BY <1>1 DEF TypeOK
  <2>4. Abstract!Off(k)' = 0
    BY <1>1, <2>2, <2>3, OffIsDistanceAfter
  <2> QED
    BY <1>2, <1>3, <2>4 DEF Abstract!Mend
<1>5. CASE Late(i)
  <2>1. PICK j : j = job[i]
    OBVIOUS
  <2>2. j \in Jobs /\ j # Idle
    BY <2>1, AtWork DEF WriteRow
  <2>3. PICK q : q = [j EXCEPT !.differs = @ \ {k}, !.live = TRUE, !.late = TRUE]
    OBVIOUS
  <2>4. q.late = TRUE /\ q.op = j.op
    BY <2>2, <2>3 DEF Jobs, Idle
  <2>5. Late(i) = TRUE
    BY <1>5 DEF Late
  <2>6. job'[i] = q
    BY <1>1, <2>1, <2>3, <2>5 DEF WriteRow, Do, TypeOK
  <2>7. \E m \in Invocations : job'[m] # Idle /\ job'[m].late
    BY <2>1, <2>4, <2>6 DEF WriteRow, Idle
  <2> QED
    BY <1>2, <1>3, <2>7 DEF Abstract!Mend
<1> QED
  BY <1>4, <1>5

\* Postings and repairs implement Ledger: a posting, of any record and however
\* it is corrected, leaves every total as far off from the records as it was,
\* and a batch of a repair sets a total to what the records add up to when it is
\* written, if it is in time.
THEOREM LedgerKept == Spec => LedgerSpec
<1>1. Init => Abstract!LedgerInit
  <2> SUFFICES ASSUME Init PROVE Abstract!LedgerInit
    OBVIOUS
  <2>1. TypeOK
    BY InitIInv DEF IInv
  <2> QED
    BY <2>1 DEF TypeOK, Abstract!LedgerInit, Abstract!Counts, Rows, ProjectRows, ReportRows
<1>2. IInv /\ IInv' /\ [Next]_vars => [Abstract!LedgerNext]_<< record, total >>
  <2> SUFFICES ASSUME IInv, IInv', [Next]_vars
               PROVE  Abstract!LedgerNext \/ UNCHANGED << record, total >>
    OBVIOUS
  <2>1. CASE \E r \in Ids, x \in New : PostRecord(r, x)
    BY <2>1, PostLedger DEF Abstract!LedgerNext
  <2>2. ASSUME NEW i \in Invocations, NEW k \in Rows, WriteRow(i, k)
        PROVE  Abstract!LedgerNext
    <3>1. k \in DOMAIN Abstract!Counts
      BY DEF Abstract!Counts, Rows, ProjectRows, ReportRows
    <3> QED
      BY <2>2, <3>1, WriteLedger DEF Abstract!LedgerNext
  <2>3. ASSUME NEW i \in Invocations, Repair(i), ~ \E k \in Rows : WriteRow(i, k)
        PROVE  UNCHANGED << record, total >>
    BY <2>3 DEF Repair, StartRepair, ClaimLease, ReadRecord, ExtendLease, ReadTotals,
                Verify, ReadWages, FinishRepair, Abandon
  <2>4. CASE \E c \in Controls : Lapse(c)
    BY <2>4 DEF Lapse
  <2>5. CASE UNCHANGED vars
    BY <2>5 DEF vars
  <2> QED
    BY <2>1, <2>2, <2>3, <2>4, <2>5 DEF Next
<1> QED
  BY <1>1, <1>2, Invariant, PTL DEF Spec, LedgerSpec, Abstract!LedgerSpec

\* A run that passes the revision check has read, record by record, what the
\* records imply at that moment.
THEOREM SnapshotsExact == Spec => SnapshotExact
<1> DEFINE Exact == \A i \in Invocations :
       job[i].op = "verify" /\ job'[i].op \in {"wages", "write"} =>
         \A k \in RowsOf(job[i].control) : Implied(k, job[i].seen) = Implied(k, record)
<1>1. IInv /\ [Next]_vars => [Exact]_vars
  <2> SUFFICES ASSUME IInv, Next, NEW i \in Invocations, job[i].op = "verify",
                      job'[i].op \in {"wages", "write"},
                      NEW k \in RowsOf(job[i].control)
               PROVE  Implied(k, job[i].seen) = Implied(k, record)
    OBVIOUS
  <2>1. PICK j : j = job[i]
    OBVIOUS
  <2>2. Sound(i, j) /\ j.op = "verify" /\ j.control \in Controls
        /\ j.seen \in [Ids -> Records]
    BY <2>1, AtWork, JobFields
  <2>3. ASSUME NEW m \in Invocations, NEW q, Do(m, q)
        PROVE  m # i => job'[i] = job[i]
    BY <2>3 DEF Do, IInv, TypeOK
  <2>4. ASSUME NEW m \in Invocations, m # i, Repair(m)
        PROVE  \E q : Do(m, q)
    BY <2>4, Zenon DEF Repair, StartRepair, ClaimLease, ReadRecord, ExtendLease,
       ReadTotals, Verify, ReadWages, WriteRow, FinishRepair, Abandon
  <2>5. Repair(i)
    BY <2>3, <2>4 DEF Next, PostRecord, Lapse
  <2>6. ~FinishRepair(i) /\ ~Abandon(i)
    <3>1. Do(i, Idle) => job'[i].op = "idle"
      BY DEF Do, Idle, IInv, TypeOK
    <3> QED
      BY <3>1 DEF FinishRepair, Abandon
  <2>7. job[i].op # "idle"
    OBVIOUS
  <2>8. Verify(i)
    <3>1. \A c \in Controls, leased \in BOOLEAN : ~StartRepair(i, c, leased)
      BY <2>7 DEF StartRepair, Idle
    <3>2. ~ClaimLease(i) /\ ~ExtendLease(i) /\ ~ReadTotals(i) /\ ~ReadWages(i)
      BY DEF ClaimLease, ExtendLease, ReadTotals, ReadWages
    <3>3. (\A r \in Ids : ~ReadRecord(i, r)) /\ (\A l \in Rows : ~WriteRow(i, l))
      BY DEF ReadRecord, WriteRow
    <3> QED
      BY <2>5, <2>6, <3>1, <3>2, <3>3 DEF Repair
  <2>9. Unmoved(j)
    BY <2>1, <2>8 DEF Verify
  <2>10. SeenStands(i, j) /\ j.left = {} /\ Kinds(j.seen)
    BY <2>2 DEF Sound, Stage
  <2> QED
    BY <2>1, <2>2, <2>9, <2>10, SeenImplied DEF IInv
<1> QED
  BY <1>1, Invariant, PTL DEF Spec, SnapshotExact
=============================================================================
