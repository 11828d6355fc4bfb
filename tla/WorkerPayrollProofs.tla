-------------------------- MODULE WorkerPayrollProofs --------------------------
(* One project per worker and date, registers equal to the records, and       *)
(* advances that are posted, cleared and recovered once, for any workers,     *)
(* projects, dates, request ids and invocations.                              *)
EXTENDS WorkerPayroll, TotalsProofs

\* The sums of a register depend on the month's records of its project only.
LEMMA SumsOfMonth ==
  ASSUME NEW p, NEW w, daily'[p] = daily[p]
  PROVE  GrossOf(p, w)' = GrossOf(p, w) /\ PaidOf(p, w)' = PaidOf(p, w)
BY DEF GrossOf, PaidOf

\* An entry that held before holds after a step that leaves the records alone.
LEMMA CurrentKept ==
  ASSUME NEW c, NEW p \in Projects, daily'[p] = daily[p],
         \A w \in Workers : DebitsOf(p, w)' = DebitsOf(p, w),
         c.members \subseteq Workers, Current(c, p)
  PROVE  Current(c, p)'
<1>1. Attended(p)' = Attended(p)
  BY DEF Attended
<1>2. \A w \in c.members :
        /\ GrossOf(p, w)' = GrossOf(p, w) /\ PaidOf(p, w)' = PaidOf(p, w)
        /\ DebitsOf(p, w)' = DebitsOf(p, w)
  BY SumsOfMonth
<1> QED
  BY <1>1, <1>2 DEF Current

\* A register is still current after a step that leaves its entries and the
\* records alone.
LEMMA RegisterKept ==
  ASSUME ItemTypes, EntriesCurrent, NEW p \in Projects, cycle[p] # NoCycle,
         cycle'[p].members = cycle[p].members, cycle'[p].gross = cycle[p].gross,
         cycle'[p].paid = cycle[p].paid, cycle'[p].debits = cycle[p].debits,
         daily'[p] = daily[p],
         \A w \in Workers : DebitsOf(p, w)' = DebitsOf(p, w)
  PROVE  Current(cycle[p], p)'
<1>1. PICK c : c = cycle[p]
  OBVIOUS
<1>2. Current(c, p) /\ c.members \subseteq Workers
  BY <1>1 DEF EntriesCurrent, ItemTypes
<1>3. Current(c, p)'
  BY <1>2, CurrentKept
<1>4. PICK n : n = cycle'[p]
  OBVIOUS
<1>5. Current(n, p)'
  BY <1>1, <1>3, <1>4 DEF Current
<1> QED
  BY <1>4, <1>5 DEF Current

\* What a request has read stays right in a step after which every month has its
\* records, or a later revision, and every worker is still registered.
LEMMA RequestKept ==
  ASSUME NEW r, RequestOK(r), ItemTypes, revision' \in [Projects -> Nat],
         \A w \in Workers : worker[w].known => worker'[w].known,
         \A p \in Projects :
           \/ revision'[p] > revision[p]
           \/ /\ revision'[p] = revision[p] /\ daily'[p] = daily[p]
              /\ \A w \in Workers : DebitsOf(p, w)' = DebitsOf(p, w)
  PROVE  RequestOK(r)'
<1>1. r.op = "attendance" =>
        /\ r.worker \in Workers /\ r.day \in Days /\ r.project \in Projects
        /\ r.after \in [wage: Nat, paid: BOOLEAN, version: Nat \ {0}]
        /\ worker'[r.worker].known
  BY DEF RequestOK
<1>2. r.op = "allocate" =>
        /\ r.worker \in Workers /\ r.day \in Days /\ r.project \in Projects
        /\ r.version \in Nat
  BY DEF RequestOK
<1>3. r.op = "debit" => r.id \in DebitIds /\ r.item \in Debits
  BY DEF RequestOK
<1>4. ASSUME r.op = "generate" PROVE Generating(r)'
  <2> DEFINE p == r.project
  <2>1. Generating(r)
    BY <1>4 DEF RequestOK
  <2>2. p \in Projects /\ r.revision \in Nat /\ r.revision <= revision[p]
        /\ r.entry.members \subseteq Workers
    BY <2>1 DEF Generating
  <2>3. revision[p] \in Nat /\ revision'[p] \in Nat
    BY <2>2 DEF ItemTypes
  <2>4. r.revision <= revision'[p]
    BY <2>2, <2>3
  <2>5. ASSUME r.revision = revision'[p]
        PROVE  /\ r.next = "month" => Attended(p)' \subseteq r.known
               /\ r.next \in {"advances", "commit"} => Current(r.entry, p)'
    <3>1. daily'[p] = daily[p] /\ r.revision = revision[p]
          /\ \A w \in Workers : DebitsOf(p, w)' = DebitsOf(p, w)
      BY <2>2, <2>3, <2>5
    <3>2. /\ r.next = "month" => Attended(p) \subseteq r.known
          /\ r.next \in {"advances", "commit"} => Current(r.entry, p)
      BY <2>1, <3>1 DEF Generating
    <3>3. Attended(p)' = Attended(p)
      BY <3>1 DEF Attended
    <3>4. r.next \in {"advances", "commit"} => Current(r.entry, p)'
      BY <2>2, <3>1, <3>2, CurrentKept
    <3> QED
      BY <3>2, <3>3, <3>4
  <2> QED
    BY <2>1, <2>2, <2>4, <2>5 DEF Generating
<1> QED
  BY <1>1, <1>2, <1>3, <1>4 DEF RequestOK

\* The same of all requests, when invocation i goes on with request r.
LEMMA RequestsKept ==
  ASSUME IInv, NEW i \in Invocations, NEW r, RequestOK(r)', Do(i, r),
         revision' \in [Projects -> Nat],
         \A w \in Workers : worker[w].known => worker'[w].known,
         \A p \in Projects :
           \/ revision'[p] > revision[p]
           \/ /\ revision'[p] = revision[p] /\ daily'[p] = daily[p]
              /\ \A w \in Workers : DebitsOf(p, w)' = DebitsOf(p, w)
  PROVE  DOMAIN req' = Invocations /\ \A k \in Invocations : RequestOK(req[k])'
<1>1. DOMAIN req = Invocations /\ ItemTypes
  BY DEF IInv
<1>2. DOMAIN req' = Invocations
      /\ \A k \in Invocations : req'[k] = IF k = i THEN r ELSE req[k]
  BY <1>1 DEF Do
<1>3. ASSUME NEW k \in Invocations PROVE RequestOK(req[k])'
  <2>1. PICK q : q = req[k]
    OBVIOUS
  <2>2. RequestOK(q)
    BY <2>1 DEF IInv
  <2>3. RequestOK(q)'
    BY <1>1, <2>2, RequestKept
  <2>4. PICK n : n = req'[k] /\ (n = r \/ n = q)
    BY <1>2, <2>1
  <2>5. RequestOK(n)'
    BY <2>3, <2>4
  <2> QED
    BY <2>4, <2>5 DEF RequestOK, Generating, Current
<1> QED
  BY <1>2, <1>3

\* And of all requests when none of them goes on.
LEMMA RequestsStay ==
  ASSUME IInv, req' = req, revision' \in [Projects -> Nat],
         \A w \in Workers : worker[w].known => worker'[w].known,
         \A p \in Projects :
           \/ revision'[p] > revision[p]
           \/ /\ revision'[p] = revision[p] /\ daily'[p] = daily[p]
              /\ \A w \in Workers : DebitsOf(p, w)' = DebitsOf(p, w)
  PROVE  \A k \in Invocations : RequestOK(req[k])'
<1> SUFFICES ASSUME NEW k \in Invocations PROVE RequestOK(req[k])'
  OBVIOUS
<1>1. PICK q : q = req[k]
  OBVIOUS
<1>2. RequestOK(q) /\ ItemTypes
  BY <1>1 DEF IInv
<1>3. RequestOK(q)'
  BY <1>2, RequestKept
<1>4. q = req'[k]
  BY <1>1
<1> QED
  BY <1>3, <1>4 DEF RequestOK, Generating, Current

\* A step that only takes an invocation to a sound request.
LEMMA ReadStep ==
  ASSUME IInv, NEW i \in Invocations, NEW r, RequestOK(r), Do(i, r),
         UNCHANGED << worker, allocation, daily, debit, revision, cycle >>
  PROVE  IInv'
<1>1. ItemTypes /\ AttendanceLocks /\ EntriesCurrent
  BY DEF IInv
<1>2. ItemTypes'
  BY <1>1 DEF ItemTypes
<1>3. AttendanceLocks'
  BY <1>1 DEF AttendanceLocks
<1>4. \A p \in Projects : \A w \in Workers : DebitsOf(p, w)' = DebitsOf(p, w)
  BY DEF DebitsOf
<1>5. EntriesCurrent'
  <2> SUFFICES ASSUME NEW p \in Projects, cycle'[p] # NoCycle
               PROVE  Current(cycle[p], p)'
    BY DEF EntriesCurrent, NoCycle, Nothing
  <2> QED
    BY <1>1, <1>4, RegisterKept
<1>6. RequestOK(r)'
  BY <1>1, <1>4, RequestKept DEF ItemTypes
<1>7. DOMAIN req' = Invocations /\ \A k \in Invocations : RequestOK(req[k])'
  BY <1>1, <1>4, <1>6, RequestsKept DEF ItemTypes
<1> QED
  BY <1>2, <1>3, <1>5, <1>7 DEF IInv
-----------------------------------------------------------------------------
(* Steps that only read.                                                   *)

\* Requests whose commits do not touch the two properties need no types.
LEMMA OtherRequest ==
  ASSUME NEW r, r.op \notin {"attendance", "allocate", "debit", "generate"}
  PROVE  RequestOK(r)
BY DEF RequestOK

LEMMA OtherStep ==
  ASSUME IInv, NEW i \in Invocations, NEW r, Do(i, r),
         r.op \notin {"attendance", "allocate", "debit", "generate"},
         UNCHANGED << worker, allocation, daily, debit, revision, cycle >>
  PROVE  IInv'
BY OtherRequest, ReadStep

LEMMA StartAttendanceStep ==
  ASSUME IInv, NEW i \in Invocations, NEW w \in Workers, NEW d \in Days,
         NEW p \in Projects, NEW n \in 0..MaxWage, NEW paid \in BOOLEAN,
         StartAttendance(i, w, d, p, n, paid)
  PROVE  IInv'
<1> DEFINE after == [wage |-> n, paid |-> paid,
                     version |-> daily[p][w][d].version + 1]
           r == [op |-> "attendance", worker |-> w, day |-> d,
                 project |-> p, after |-> after]
<1>1. daily[p][w][d].version \in Nat
  BY DEF IInv, ItemTypes
<1>2. after \in [wage: Nat, paid: BOOLEAN, version: Nat \ {0}]
  BY <1>1
<1>3. worker[w].known /\ Do(i, r)
      /\ UNCHANGED << worker, allocation, daily, debit, revision, cycle >>
  BY DEF StartAttendance, Begin, rosterVars, payrollVars
<1> HIDE DEF after
<1>4. RequestOK(r)
  BY <1>2, <1>3 DEF RequestOK
<1> HIDE DEF r
<1> QED
  BY <1>3, <1>4, ReadStep

LEMMA StartAllocateStep ==
  ASSUME IInv, NEW i \in Invocations, NEW w \in Workers, NEW d \in Days,
         NEW p \in Projects, StartAllocate(i, w, d, p)
  PROVE  IInv'
<1> DEFINE r == [op |-> "allocate", worker |-> w, day |-> d, project |-> p,
                 version |-> allocation[w][d].version]
<1>1. allocation[w][d].version \in Nat
  BY DEF IInv, ItemTypes
<1>2. Do(i, r)
      /\ UNCHANGED << worker, allocation, daily, debit, revision, cycle >>
  BY DEF StartAllocate, Begin, rosterVars, payrollVars
<1>3. RequestOK(r)
  BY <1>1 DEF RequestOK
<1> HIDE DEF r
<1> QED
  BY <1>2, <1>3, ReadStep

LEMMA StartDebitStep ==
  ASSUME IInv, NEW i \in Invocations, NEW id \in DebitIds, NEW w \in Workers,
         NEW d \in Days, NEW p \in Projects, NEW n \in 1..MaxAmount,
         StartDebit(i, id, w, d, p, n)
  PROVE  IInv'
<1> DEFINE r == [op |-> "debit", id |-> id,
                 item |-> [worker |-> w, project |-> p, amount |-> n]]
<1>1. Do(i, r)
      /\ UNCHANGED << worker, allocation, daily, debit, revision, cycle >>
  BY DEF StartDebit, Begin, rosterVars, payrollVars
<1>2. RequestOK(r)
  BY DEF RequestOK, Debits
<1> HIDE DEF r
<1> QED
  BY <1>1, <1>2, ReadStep

LEMMA StartGenerateStep ==
  ASSUME IInv, NEW i \in Invocations, NEW p \in Projects, StartGenerate(i, p)
  PROVE  IInv'
<1> DEFINE r == [op |-> "generate", next |-> "roster", project |-> p,
                 revision |-> revision[p], known |-> {}, entry |-> NoCycle]
<1>1. Do(i, r)
      /\ UNCHANGED << worker, allocation, daily, debit, revision, cycle >>
  BY DEF StartGenerate, Begin, rosterVars, payrollVars
<1>2. revision[p] \in Nat
  BY DEF IInv, ItemTypes
<1>3. NoCycle.members = {}
  BY DEF NoCycle
<1>4. Generating(r)
  BY <1>2, <1>3 DEF Generating
<1>5. RequestOK(r)
  BY <1>4 DEF RequestOK
<1> HIDE DEF r
<1> QED
  BY <1>1, <1>5, ReadStep

LEMMA ReadRosterStep ==
  ASSUME IInv, NEW i \in Invocations, ReadRoster(i)
  PROVE  IInv'
<1> DEFINE known == {w \in Workers : worker[w].known}
           members == {w \in known : req[i].project \in AtStart(w)}
           r == [req[i] EXCEPT !.next = "month", !.known = known,
                               !.entry.members = members]
<1>1. req[i].op = "generate" /\ Do(i, r)
      /\ UNCHANGED << worker, allocation, daily, debit, revision, cycle >>
  BY DEF ReadRoster, Serves, rosterVars, payrollVars
<1>2. Generating(req[i])
  BY <1>1 DEF IInv, RequestOK
<1>3. known \subseteq Workers /\ members \subseteq Workers
  OBVIOUS
<1>4. Attended(req[i].project) \subseteq known
  BY <1>2 DEF IInv, AttendanceLocks, Attended, Generating
<1> HIDE DEF known, members
<1>5. DOMAIN r = DOMAIN req[i] /\ DOMAIN r.entry = DOMAIN req[i].entry
      /\ r.op = "generate" /\ r.next = "month" /\ r.project = req[i].project
      /\ r.revision = req[i].revision /\ r.known = known
      /\ r.entry.members = members
  BY <1>1, <1>2 DEF Generating, NoCycle
<1> HIDE DEF r
<1>6. Generating(r)
  BY <1>2, <1>3, <1>4, <1>5 DEF Generating
<1>7. RequestOK(r)
  BY <1>5, <1>6 DEF RequestOK
<1> QED
  BY <1>1, <1>7, ReadStep

LEMMA ReadMonthStep ==
  ASSUME IInv, NEW i \in Invocations, ReadMonth(i)
  PROVE  IInv'
<1> DEFINE p == req[i].project
           listed == req[i].entry.members \cup
             {w \in req[i].known : \E d \in Days : daily[p][w][d].version > 0}
           gross == [w \in Workers |-> GrossOf(p, w)]
           paid == [w \in Workers |-> PaidOf(p, w)]
           debits == [w \in Workers |-> DebitsOf(p, w)]
           r == [req[i] EXCEPT !.next = "advances", !.known = {},
                               !.entry.members = listed, !.entry.gross = gross,
                               !.entry.paid = paid, !.entry.debits = debits]
<1>1. req[i].op = "generate" /\ req[i].next = "month" /\ Do(i, r)
      /\ UNCHANGED << worker, allocation, daily, debit, revision, cycle >>
  BY DEF ReadMonth, Serves, rosterVars, payrollVars
<1>2. Generating(req[i])
  BY <1>1 DEF IInv, RequestOK
<1>3. listed \subseteq Workers
  BY <1>2 DEF Generating
<1>4. req[i].revision = revision[p] => Attended(p) \subseteq listed
  BY <1>1, <1>2 DEF Attended, Generating
<1>5. \A w \in listed : /\ gross[w] = GrossOf(p, w) /\ paid[w] = PaidOf(p, w)
                        /\ debits[w] = DebitsOf(p, w)
  BY <1>3
<1> HIDE DEF listed, gross, paid, debits
<1>6. DOMAIN r = DOMAIN req[i] /\ DOMAIN r.entry = DOMAIN req[i].entry
      /\ r.op = "generate" /\ r.next = "advances" /\ r.project = req[i].project
      /\ r.revision = req[i].revision /\ r.known = {}
      /\ r.entry.members = listed /\ r.entry.gross = gross
      /\ r.entry.paid = paid /\ r.entry.debits = debits
  BY <1>1, <1>2 DEF Generating, NoCycle
<1> HIDE DEF r
<1>7. r.revision = revision[r.project] => Current(r.entry, r.project)
  BY <1>4, <1>5, <1>6 DEF Current
<1>8. Generating(r)
  BY <1>2, <1>3, <1>6, <1>7 DEF Generating
<1>9. RequestOK(r)
  BY <1>6, <1>8 DEF RequestOK
<1> QED
  BY <1>1, <1>9, ReadStep

LEMMA ReadAdvancesStep ==
  ASSUME IInv, NEW i \in Invocations, ReadAdvances(i)
  PROVE  IInv'
<1> DEFINE recovery == [w \in Workers |-> IF w \in req[i].entry.members
                          THEN advanced[req[i].project][w] ELSE 0]
           r == [req[i] EXCEPT !.next = "commit", !.entry.recovery = recovery]
<1>1. req[i].op = "generate" /\ req[i].next = "advances" /\ Do(i, r)
      /\ UNCHANGED << worker, allocation, daily, debit, revision, cycle >>
  BY DEF ReadAdvances, Serves, rosterVars, payrollVars
<1>2. Generating(req[i])
  BY <1>1 DEF IInv, RequestOK
<1> HIDE DEF recovery
<1>3. DOMAIN r = DOMAIN req[i] /\ DOMAIN r.entry = DOMAIN req[i].entry
      /\ r.op = "generate" /\ r.next = "commit" /\ r.project = req[i].project
      /\ r.revision = req[i].revision /\ r.known = req[i].known
      /\ r.entry.members = req[i].entry.members
      /\ r.entry.gross = req[i].entry.gross /\ r.entry.paid = req[i].entry.paid
      /\ r.entry.debits = req[i].entry.debits
  BY <1>1, <1>2 DEF Generating, NoCycle
<1> HIDE DEF r
<1>4. r.revision = revision[r.project] => Current(r.entry, r.project)
  BY <1>1, <1>2, <1>3 DEF Current, Generating
<1>5. Generating(r)
  BY <1>2, <1>3, <1>4 DEF Generating
<1>6. RequestOK(r)
  BY <1>3, <1>5 DEF RequestOK
<1> QED
  BY <1>1, <1>6, ReadStep
-----------------------------------------------------------------------------
(* Steps that write.                                                       *)

\* A step that raises the revision of one month, or of none.
LEMMA TouchKeeps ==
  ASSUME ItemTypes, NEW p, Touch(p)
  PROVE  /\ revision' \in [Projects -> Nat]
         /\ \A q \in Projects :
              revision'[q] = IF q = p THEN revision[q] + 1 ELSE revision[q]
<1>1. revision \in [Projects -> Nat] /\ revision' = [revision EXCEPT ![p] = @ + 1]
  BY DEF ItemTypes, Touch
<1>2. \A q \in Projects : revision[q] \in Nat /\ revision[q] + 1 \in Nat
  BY <1>1
<1> QED
  BY <1>1, <1>2

\* An update of one element of a function of two or of three arguments.
LEMMA UpdateTwo ==
  ASSUME NEW A, NEW B, NEW C, NEW f \in [A -> [B -> C]],
         NEW x \in A, NEW y \in B, NEW c \in C
  PROVE  LET g == [f EXCEPT ![x][y] = c]
         IN  /\ g \in [A -> [B -> C]]
             /\ \A a \in A, b \in B :
                  g[a][b] = IF a = x /\ b = y THEN c ELSE f[a][b]
OBVIOUS

LEMMA UpdateThree ==
  ASSUME NEW A, NEW B, NEW C, NEW D, NEW f \in [A -> [B -> [C -> D]]],
         NEW x \in A, NEW y \in B, NEW z \in C, NEW v \in D,
         NEW g, g = [f EXCEPT ![x][y][z] = v]
  PROVE  /\ g \in [A -> [B -> [C -> D]]]
         /\ \A a \in A : a # x => g[a] = f[a]
         /\ \A a \in A, b \in B, c \in C :
              g[a][b][c] = IF a = x /\ b = y /\ c = z THEN v ELSE f[a][b][c]
<1> DEFINE h == [f[x] EXCEPT ![y][z] = v]
<1>1. f[x] \in [B -> [C -> D]]
  OBVIOUS
<1>2. /\ h \in [B -> [C -> D]]
      /\ \A b \in B, c \in C :
           h[b][c] = IF b = y /\ c = z THEN v ELSE f[x][b][c]
  BY <1>1, UpdateTwo
<1>3. g = [f EXCEPT ![x] = h]
  OBVIOUS
<1> HIDE DEF h
<1>4. g \in [A -> [B -> [C -> D]]] /\ \A a \in A : g[a] = IF a = x THEN h ELSE f[a]
  BY <1>2, <1>3
<1>5. \A a \in A, b \in B, c \in C :
        g[a][b][c] = IF a = x /\ b = y /\ c = z THEN v ELSE f[a][b][c]
  BY <1>2, <1>4
<1> QED
  BY <1>4, <1>5

\* Registers stay current when those whose records change do not exist.
LEMMA RegistersKept ==
  ASSUME IInv, cycle' = cycle,
         \A p \in Projects :
           \/ cycle[p] = NoCycle
           \/ /\ daily'[p] = daily[p]
              /\ \A w \in Workers : DebitsOf(p, w)' = DebitsOf(p, w)
  PROVE  EntriesCurrent'
<1> SUFFICES ASSUME NEW p \in Projects, cycle'[p] # NoCycle
             PROVE  Current(cycle[p], p)'
  BY DEF EntriesCurrent, NoCycle, Nothing
<1> QED
  BY RegisterKept DEF IInv

LEMMA RegisterStep ==
  ASSUME IInv, NEW w \in Workers, NEW P \in SUBSET Projects, Register(w, P)
  PROVE  IInv'
<1>1. worker' = [worker EXCEPT ![w] = [known |-> TRUE, project |-> P]]
      /\ UNCHANGED << allocation, daily, debit, revision, cycle, req >>
  BY DEF Register, payrollVars
<1>2. ItemTypes /\ AttendanceLocks /\ EntriesCurrent /\ DOMAIN req = Invocations
  BY DEF IInv
<1>3. ItemTypes'
  BY <1>1, <1>2 DEF ItemTypes
<1>4. \A v \in Workers : worker[v].known => worker'[v].known
  BY <1>1, <1>2 DEF ItemTypes
<1>5. AttendanceLocks'
  BY <1>1, <1>2, <1>4 DEF AttendanceLocks
<1>6. \A p \in Projects : \A v \in Workers : DebitsOf(p, v)' = DebitsOf(p, v)
  BY <1>1 DEF DebitsOf
<1>7. EntriesCurrent'
  BY <1>1, <1>6, RegistersKept
<1>8. \A k \in Invocations : RequestOK(req[k])'
  BY <1>1, <1>2, <1>4, <1>6, RequestsStay DEF ItemTypes
<1> QED
  BY <1>1, <1>2, <1>3, <1>5, <1>7, <1>8 DEF IInv

LEMMA CommitAllocateStep ==
  ASSUME IInv, NEW i \in Invocations, CommitAllocate(i)
  PROVE  IInv'
<1> DEFINE w == req[i].worker
           d == req[i].day
           a == [project |-> {req[i].project}, started |-> FALSE,
                 version |-> req[i].version + 1]
<1>1. /\ req[i].op = "allocate" /\ ~allocation[w][d].started
      /\ allocation' = [allocation EXCEPT ![w][d] = a] /\ Do(i, Idle)
      /\ UNCHANGED << worker, daily, debit, revision, cycle >>
  BY DEF CommitAllocate, Serves, Allocatable, payrollVars
<1>2. ItemTypes /\ AttendanceLocks /\ RequestOK(req[i])
  BY DEF IInv
<1>3. /\ w \in Workers /\ d \in Days /\ req[i].project \in Projects
      /\ req[i].version \in Nat
  BY <1>1, <1>2 DEF RequestOK
<1>4. a \in [project: SUBSET Projects, started: BOOLEAN, version: Nat]
      /\ \A p, q \in a.project : p = q
  BY <1>3
<1> HIDE DEF a
<1>5. \A v \in Workers, e \in Days :
        allocation'[v][e] = IF v = w /\ e = d THEN a ELSE allocation[v][e]
  BY <1>1, <1>2 DEF ItemTypes
<1>6. ItemTypes'
  BY <1>1, <1>2, <1>3, <1>4 DEF ItemTypes
<1>7. AttendanceLocks'
  BY <1>1, <1>2, <1>4, <1>5 DEF AttendanceLocks
<1>8. \A p \in Projects : \A v \in Workers : DebitsOf(p, v)' = DebitsOf(p, v)
  BY <1>1 DEF DebitsOf
<1>9. EntriesCurrent'
  BY <1>1, <1>8, RegistersKept
<1>10. RequestOK(Idle)'
  BY DEF RequestOK, Idle
<1>11. DOMAIN req' = Invocations /\ \A k \in Invocations : RequestOK(req[k])'
  BY <1>1, <1>2, <1>8, <1>10, RequestsKept DEF ItemTypes
<1> QED
  BY <1>6, <1>7, <1>9, <1>11 DEF IInv

LEMMA CommitAttendanceStep ==
  ASSUME IInv, NEW i \in Invocations, CommitAttendance(i)
  PROVE  IInv'
<1> DEFINE w == req[i].worker
           d == req[i].day
           p == req[i].project
           after == req[i].after
<1>1. /\ req[i].op = "attendance" /\ p \in allocation[w][d].project
      /\ cycle[p] = NoCycle
      /\ allocation' = [allocation EXCEPT ![w][d].started = TRUE]
      /\ daily' = [daily EXCEPT ![p][w][d] = after]
      /\ Touch(p) /\ Do(i, Idle)
      /\ UNCHANGED << worker, debit, cycle >>
  BY DEF CommitAttendance, Serves, Unlocked, payrollVars
<1>2. ItemTypes /\ AttendanceLocks /\ RequestOK(req[i])
  BY DEF IInv
<1>3. /\ w \in Workers /\ d \in Days /\ p \in Projects /\ worker[w].known
      /\ after \in [wage: Nat, paid: BOOLEAN, version: Nat]
  BY <1>1, <1>2 DEF RequestOK
<1> HIDE DEF after, w, d, p
<1>4. /\ revision' \in [Projects -> Nat]
      /\ \A q \in Projects :
           revision'[q] = IF q = p THEN revision[q] + 1 ELSE revision[q]
  BY <1>1, <1>2, TouchKeeps
<1> DEFINE As == [project: SUBSET Projects, started: BOOLEAN, version: Nat]
           Ds == [wage: Nat, paid: BOOLEAN, version: Nat]
           a == [allocation[w][d] EXCEPT !.started = TRUE]
<1>5. /\ a \in As /\ a.started
      /\ a.project = allocation[w][d].project
  <2>1. allocation[w][d] \in As
    BY <1>2, <1>3 DEF ItemTypes
  <2> QED
    BY <2>1
<1>6. allocation' = [allocation EXCEPT ![w][d] = a]
  BY <1>1
<1> HIDE DEF a, As, Ds
<1>7. /\ allocation' \in [Workers -> [Days -> As]]
      /\ \A v \in Workers, e \in Days :
           allocation'[v][e] = IF v = w /\ e = d THEN a ELSE allocation[v][e]
  <2>1. allocation \in [Workers -> [Days -> As]]
    BY <1>2 DEF ItemTypes, As
  <2> QED
    BY <1>3, <1>5, <1>6, <2>1, UpdateTwo
<1>8. /\ daily' \in [Projects -> [Workers -> [Days -> Ds]]]
      /\ \A q \in Projects : q # p => daily'[q] = daily[q]
      /\ \A q \in Projects, v \in Workers, e \in Days :
           daily'[q][v][e] = IF q = p /\ v = w /\ e = d THEN after
                                                        ELSE daily[q][v][e]
  <2>1. daily \in [Projects -> [Workers -> [Days -> Ds]]] /\ after \in Ds
    BY <1>2, <1>3 DEF ItemTypes, Ds
  <2>2. daily' = [daily EXCEPT ![p][w][d] = after]
    BY <1>1
  <2> QED
    BY <1>3, <2>1, <2>2, UpdateThree
<1>9. /\ cycle' = cycle /\ debit' = debit /\ worker' = worker
  BY <1>1
<1>10. ItemTypes'
  BY <1>2, <1>4, <1>7, <1>8, <1>9 DEF ItemTypes, As, Ds
<1>11. AttendanceLocks'
  <2>1. \A v \in Workers, e \in Days :
          /\ allocation'[v][e].project = allocation[v][e].project
          /\ allocation[v][e].started => allocation'[v][e].started
    BY <1>5, <1>7
  <2>2. \A v \in Workers, e \in Days :
          \A q, k \in allocation'[v][e].project : q = k
    BY <1>2, <2>1 DEF AttendanceLocks
  <2>3. ASSUME NEW v \in Workers, NEW e \in Days, NEW q \in Projects,
               daily'[q][v][e].version > 0
        PROVE  /\ worker'[v].known /\ allocation'[v][e].started
               /\ q \in allocation'[v][e].project
    <3>1. CASE q = p /\ v = w /\ e = d
      BY <1>1, <1>3, <1>5, <1>7, <1>9, <3>1
    <3>2. CASE ~(q = p /\ v = w /\ e = d)
      <4>1. daily'[q][v][e] = daily[q][v][e]
        BY <1>8, <3>2
      <4>2. /\ worker[v].known /\ allocation[v][e].started
            /\ q \in allocation[v][e].project
        BY <1>2, <2>3, <4>1 DEF AttendanceLocks
      <4> QED
        BY <1>9, <2>1, <4>2
    <3> QED
      BY <3>1, <3>2
  <2> QED
    BY <2>2, <2>3 DEF AttendanceLocks
<1>12. \A q \in Projects : \A v \in Workers : DebitsOf(q, v)' = DebitsOf(q, v)
  BY <1>1 DEF DebitsOf
<1>13. EntriesCurrent'
  BY <1>1, <1>8, <1>12, RegistersKept
<1>14. RequestOK(Idle)'
  BY DEF RequestOK, Idle
<1>15. \A q \in Projects :
         \/ revision'[q] > revision[q]
         \/ /\ revision'[q] = revision[q] /\ daily'[q] = daily[q]
            /\ \A v \in Workers : DebitsOf(q, v)' = DebitsOf(q, v)
  <2>1. revision \in [Projects -> Nat]
    BY <1>2 DEF ItemTypes
  <2> QED
    BY <1>4, <1>8, <1>12, <2>1
<1>16. DOMAIN req' = Invocations /\ \A k \in Invocations : RequestOK(req[k])'
  BY <1>1, <1>4, <1>14, <1>15, RequestsKept
<1> QED
  BY <1>10, <1>11, <1>13, <1>16 DEF IInv

LEMMA CommitDebitStep ==
  ASSUME IInv, NEW i \in Invocations, CommitDebit(i)
  PROVE  IInv'
<1> DEFINE id == req[i].id
           item == req[i].item
           p == item.project
<1>1. /\ req[i].op = "debit" /\ cycle[p] = NoCycle /\ debit[id] = NoDebit
      /\ debit' = [debit EXCEPT ![id] = item]
      /\ Touch(p) /\ Do(i, Idle)
      /\ UNCHANGED << worker, allocation, daily, cycle >>
  BY DEF CommitDebit, Serves, Unlocked, payrollVars, rosterVars
<1>2. ItemTypes /\ AttendanceLocks /\ RequestOK(req[i])
  BY DEF IInv
<1>3. id \in DebitIds /\ item \in Debits /\ p \in Projects
  BY <1>1, <1>2 DEF RequestOK, Debits
<1>4. /\ revision' \in [Projects -> Nat]
      /\ \A q \in Projects :
           revision'[q] = IF q = p THEN revision[q] + 1 ELSE revision[q]
  BY <1>1, <1>2, TouchKeeps
<1> HIDE DEF item, id
<1>5. \A k \in DebitIds : debit'[k] = IF k = id THEN item ELSE debit[k]
  BY <1>1, <1>2 DEF ItemTypes
<1>6. ItemTypes'
  BY <1>1, <1>2, <1>3, <1>4 DEF ItemTypes
<1>7. AttendanceLocks'
  BY <1>1, <1>2 DEF AttendanceLocks
<1>8. ASSUME NEW q \in Projects, q # p, NEW v \in Workers
      PROVE  DebitsOf(q, v)' = DebitsOf(q, v)
  <2> DEFINE D == {k \in DebitIds : debit[k] # NoDebit /\ debit[k].worker = v
                                    /\ debit[k].project = q}
             E == {k \in DebitIds : debit'[k] # NoDebit /\ debit'[k].worker = v
                                    /\ debit'[k].project = q}
  <2>1. id \notin D /\ id \notin E
    BY <1>1, <1>3, <1>5, <1>8
  <2>2. E = D
    BY <1>5, <2>1
  <2>3. \A k \in D : debit'[k].amount = debit[k].amount
    BY <1>5, <2>1
  <2>4. [k \in E |-> debit'[k].amount] = [k \in D |-> debit[k].amount]
    BY <2>2, <2>3
  <2> QED
    BY <2>2, <2>4 DEF DebitsOf
<1>9. EntriesCurrent'
  BY <1>1, <1>8, RegistersKept
<1>10. RequestOK(Idle)'
  BY DEF RequestOK, Idle
<1>11. \A q \in Projects :
         \/ revision'[q] > revision[q]
         \/ /\ revision'[q] = revision[q] /\ daily'[q] = daily[q]
            /\ \A v \in Workers : DebitsOf(q, v)' = DebitsOf(q, v)
  <2>1. revision \in [Projects -> Nat]
    BY <1>2 DEF ItemTypes
  <2> QED
    BY <1>1, <1>4, <1>8, <2>1
<1>12. DOMAIN req' = Invocations /\ \A k \in Invocations : RequestOK(req[k])'
  BY <1>1, <1>4, <1>10, <1>11, RequestsKept
<1> QED
  BY <1>6, <1>7, <1>9, <1>12 DEF IInv
\* Advances and their clearing only raise a month's revision.
LEMMA TouchStep ==
  ASSUME IInv, NEW i \in Invocations, NEW p, Touch(p), Do(i, Idle),
         UNCHANGED << worker, allocation, daily, debit, cycle >>
  PROVE  IInv'
<1>1. ItemTypes /\ AttendanceLocks /\ EntriesCurrent
  BY DEF IInv
<1>2. /\ revision' \in [Projects -> Nat]
      /\ \A q \in Projects :
           revision'[q] = IF q = p THEN revision[q] + 1 ELSE revision[q]
  BY <1>1, TouchKeeps
<1>3. ItemTypes'
  BY <1>1, <1>2 DEF ItemTypes
<1>4. AttendanceLocks'
  BY <1>1 DEF AttendanceLocks
<1>5. \A q \in Projects : \A w \in Workers : DebitsOf(q, w)' = DebitsOf(q, w)
  BY DEF DebitsOf
<1>6. EntriesCurrent'
  BY <1>5, RegistersKept
<1>7. RequestOK(Idle)'
  BY DEF RequestOK, Idle
<1>8. \A q \in Projects : revision'[q] > revision[q] \/ revision'[q] = revision[q]
  <2>1. revision \in [Projects -> Nat]
    BY <1>1 DEF ItemTypes
  <2> QED
    BY <1>2, <2>1
<1>9. DOMAIN req' = Invocations /\ \A k \in Invocations : RequestOK(req[k])'
  BY <1>2, <1>5, <1>7, <1>8, RequestsKept
<1> QED
  BY <1>3, <1>4, <1>6, <1>9 DEF IInv

LEMMA CommitAdvanceStep ==
  ASSUME IInv, NEW i \in Invocations, CommitAdvance(i)
  PROVE  IInv'
<1>1. /\ Touch(req[i].item.project) /\ Do(i, Idle)
      /\ UNCHANGED << worker, allocation, daily, debit, cycle >>
  BY DEF CommitAdvance, rosterVars, payrollVars
<1> QED
  BY <1>1, TouchStep

LEMMA CommitClearingStep ==
  ASSUME IInv, NEW i \in Invocations, CommitClearing(i)
  PROVE  IInv'
<1>1. /\ Touch(req[i].before.project) /\ Do(i, Idle)
      /\ UNCHANGED << worker, allocation, daily, debit, cycle >>
  BY DEF CommitClearing, rosterVars, payrollVars
<1> QED
  BY <1>1, TouchStep

LEMMA RegisterAllocateStep ==
  ASSUME IInv, NEW w \in Workers, NEW p \in Projects, NEW d \in Days,
         RegisterAllocate(w, p, d)
  PROVE  IInv'
<1> DEFINE As == [project: SUBSET Projects, started: BOOLEAN, version: Nat]
           a == [project |-> {p}, started |-> FALSE, version |-> 1]
           n == [known |-> TRUE, project |-> {p}]
<1>1. /\ worker[w] = NoWorker /\ cycle[p] = NoCycle
      /\ worker' = [worker EXCEPT ![w] = n]
      /\ allocation' = [allocation EXCEPT ![w][d] = a]
      /\ Touch(p) /\ UNCHANGED << daily, debit, cycle, req >>
  BY DEF RegisterAllocate, Unlocked, payrollVars
<1>2. ItemTypes /\ AttendanceLocks /\ EntriesCurrent /\ DOMAIN req = Invocations
  BY DEF IInv
<1>3. a \in As /\ a.project = {p} /\ ~worker[w].known
      /\ n \in [known: BOOLEAN, project: SUBSET Projects] /\ n.known
  BY <1>1 DEF NoWorker
<1> HIDE DEF a, n, As
<1>4. /\ revision' \in [Projects -> Nat]
      /\ \A q \in Projects :
           revision'[q] = IF q = p THEN revision[q] + 1 ELSE revision[q]
  BY <1>1, <1>2, TouchKeeps
<1>5. /\ allocation' \in [Workers -> [Days -> As]]
      /\ \A v \in Workers, e \in Days :
           allocation'[v][e] = IF v = w /\ e = d THEN a ELSE allocation[v][e]
  <2>1. allocation \in [Workers -> [Days -> As]]
    BY <1>2 DEF ItemTypes, As
  <2> QED
    BY <1>1, <1>3, <2>1, UpdateTwo
<1>6. /\ worker' \in [Workers -> [known: BOOLEAN, project: SUBSET Projects]]
      /\ \A v \in Workers : worker'[v] = IF v = w THEN n ELSE worker[v]
  <2>1. worker \in [Workers -> [known: BOOLEAN, project: SUBSET Projects]]
    BY <1>2 DEF ItemTypes
  <2> QED
    BY <1>1, <1>3, <2>1
<1>7. daily' = daily /\ debit' = debit /\ cycle' = cycle /\ req' = req
  BY <1>1
<1>8. ItemTypes'
  BY <1>2, <1>4, <1>5, <1>6, <1>7 DEF ItemTypes, As
<1>9. \A v \in Workers : worker[v].known => worker'[v].known
  BY <1>3, <1>6
<1>10. AttendanceLocks'
  <2>1. \A v \in Workers, e \in Days :
          \A q, k \in allocation'[v][e].project : q = k
    BY <1>2, <1>3, <1>5 DEF AttendanceLocks
  <2>2. ASSUME NEW v \in Workers, NEW e \in Days, NEW q \in Projects,
               daily'[q][v][e].version > 0
        PROVE  /\ worker'[v].known /\ allocation'[v][e].started
               /\ q \in allocation'[v][e].project
    <3>1. /\ worker[v].known /\ allocation[v][e].started
          /\ q \in allocation[v][e].project
      BY <1>2, <1>7, <2>2 DEF AttendanceLocks
    <3>2. v # w
      BY <1>3, <3>1
    <3> QED
      BY <1>5, <1>9, <3>1, <3>2
  <2> QED
    BY <2>1, <2>2 DEF AttendanceLocks
<1>11. \A q \in Projects : \A v \in Workers : DebitsOf(q, v)' = DebitsOf(q, v)
  BY <1>7 DEF DebitsOf
<1>12. EntriesCurrent'
  BY <1>7, <1>11, RegistersKept
<1>13. \A q \in Projects : revision'[q] > revision[q] \/ revision'[q] = revision[q]
  <2>1. revision \in [Projects -> Nat]
    BY <1>2 DEF ItemTypes
  <2> QED
    BY <1>4, <2>1
<1>14. \A k \in Invocations : RequestOK(req[k])'
  BY <1>4, <1>7, <1>9, <1>11, <1>13, RequestsStay
<1> QED
  BY <1>2, <1>7, <1>8, <1>10, <1>12, <1>14 DEF IInv

\* A step of registers keeps the invariant when each register that is new or
\* has changed is current.
LEMMA CycleStep ==
  ASSUME IInv, NEW p \in Projects, NEW c, cycle' = [cycle EXCEPT ![p] = c],
         DOMAIN c = DOMAIN NoCycle, c.members \subseteq Workers,
         c # NoCycle => Current(c, p),
         UNCHANGED << worker, allocation, daily, debit, revision >>,
         DOMAIN req' = Invocations,
         \A i \in Invocations : req'[i] = req[i] \/ req'[i] = Idle
  PROVE  IInv'
<1>1. ItemTypes /\ AttendanceLocks /\ EntriesCurrent
  BY DEF IInv
<1>2. DOMAIN cycle' = Projects
      /\ \A q \in Projects : cycle'[q] = IF q = p THEN c ELSE cycle[q]
  BY <1>1 DEF ItemTypes
<1>3. ItemTypes'
  BY <1>1, <1>2 DEF ItemTypes
<1>4. AttendanceLocks'
  BY <1>1 DEF AttendanceLocks
<1>5. \A q \in Projects : \A w \in Workers : DebitsOf(q, w)' = DebitsOf(q, w)
  BY DEF DebitsOf
<1>6. EntriesCurrent'
  <2> SUFFICES ASSUME NEW q \in Projects, cycle'[q] # NoCycle
               PROVE  Current(cycle[q], q)'
    BY DEF EntriesCurrent, NoCycle, Nothing
  <2>1. CASE q = p
    <3>1. Current(c, p)'
      BY <1>2, <2>1, CurrentKept, <1>5
    <3> QED
      BY <1>2, <2>1, <3>1 DEF Current
  <2>2. CASE q # p
    BY <1>1, <1>2, <1>5, <2>2, RegisterKept
  <2> QED
    BY <2>1, <2>2
<1>7. ASSUME NEW k \in Invocations PROVE RequestOK(req[k])'
  <2>1. PICK q : q = req'[k]
    OBVIOUS
  <2>2. RequestOK(q)
    <3>1. RequestOK(Idle)
      BY DEF RequestOK, Idle
    <3> QED
      BY <2>1, <3>1 DEF IInv
  <2>3. RequestOK(q)'
    BY <1>1, <1>5, <2>2, RequestKept DEF ItemTypes
  <2> QED
    BY <2>1, <2>3 DEF RequestOK, Generating, Current
<1> QED
  BY <1>3, <1>4, <1>6, <1>7 DEF IInv

LEMMA CommitGenerateStep ==
  ASSUME IInv, NEW i \in Invocations, CommitGenerate(i)
  PROVE  IInv'
<1> DEFINE r == req[i]
           c == [r.entry EXCEPT !.id = nextId, !.status = "Pending"]
<1>1. /\ r.op = "generate" /\ r.next = "commit"
      /\ r.revision = revision[r.project]
      /\ cycle' = [cycle EXCEPT ![r.project] = c] /\ Do(i, Idle)
      /\ UNCHANGED << worker, allocation, daily, debit, revision >>
  BY DEF CommitGenerate, Serves, SourcesUnchanged, rosterVars
<1>2. Generating(r) /\ DOMAIN req = Invocations
  BY <1>1 DEF IInv, RequestOK
<1>3. Current(r.entry, r.project) /\ DOMAIN r.entry = DOMAIN NoCycle
      /\ r.entry.members \subseteq Workers /\ r.project \in Projects
  BY <1>1, <1>2 DEF Generating
<1> HIDE DEF r
<1>4. DOMAIN c = DOMAIN NoCycle /\ c.members = r.entry.members
      /\ c.gross = r.entry.gross /\ c.paid = r.entry.paid
      /\ c.debits = r.entry.debits
  BY <1>3 DEF NoCycle
<1> HIDE DEF c
<1>5. Current(c, r.project)
  BY <1>3, <1>4 DEF Current
<1>6. DOMAIN req' = Invocations
      /\ \A k \in Invocations : req'[k] = req[k] \/ req'[k] = Idle
  BY <1>1, <1>2 DEF Do
<1> QED
  BY <1>1, <1>3, <1>4, <1>5, <1>6, CycleStep

LEMMA ReopenStep ==
  ASSUME IInv, NEW p \in Projects, Reopen(p)
  PROVE  IInv'
<1>1. cycle' = [cycle EXCEPT ![p] = NoCycle]
      /\ UNCHANGED << worker, allocation, daily, debit, revision, req >>
  BY DEF Reopen, rosterVars
<1>2. NoCycle.members = {}
  BY DEF NoCycle
<1>3. DOMAIN req' = Invocations
  BY <1>1 DEF IInv
<1> QED
  BY <1>1, <1>2, <1>3, CycleStep

LEMMA SettleStep ==
  ASSUME IInv, NEW p \in Projects, Settle(p)
  PROVE  IInv'
<1> DEFINE c == [cycle[p] EXCEPT !.status = "Paid"]
<1>1. cycle' = [cycle EXCEPT ![p] = c] /\ cycle[p].status = "Pending"
      /\ UNCHANGED << worker, allocation, daily, debit, revision, req >>
  BY DEF Settle, rosterVars
<1>2. cycle[p] # NoCycle
  BY <1>1 DEF NoCycle
<1>3. Current(cycle[p], p) /\ DOMAIN cycle[p] = DOMAIN NoCycle
      /\ cycle[p].members \subseteq Workers
  BY <1>2 DEF IInv, EntriesCurrent, ItemTypes
<1>4. DOMAIN c = DOMAIN NoCycle /\ c.members = cycle[p].members
      /\ c.gross = cycle[p].gross /\ c.paid = cycle[p].paid
      /\ c.debits = cycle[p].debits
  BY <1>3 DEF NoCycle
<1> HIDE DEF c
<1>5. Current(c, p)
  BY <1>3, <1>4 DEF Current
<1>6. DOMAIN req' = Invocations
  BY <1>1 DEF IInv
<1> QED
  BY <1>1, <1>3, <1>4, <1>5, <1>6, CycleStep

-----------------------------------------------------------------------------
LEMMA InitIInv == Init => IInv
<1> SUFFICES ASSUME Init PROVE IInv
  OBVIOUS
<1>1. ItemTypes
  BY DEF Init, ItemTypes, NoWorker, NoAllocation, NoDaily, NoCycle
<1>2. AttendanceLocks
  BY DEF Init, AttendanceLocks, NoAllocation, NoDaily
<1>3. EntriesCurrent
  BY DEF Init, EntriesCurrent
<1>4. DOMAIN req = Invocations /\ \A i \in Invocations : RequestOK(req[i])
  BY DEF Init, Idle, RequestOK
<1> QED
  BY <1>1, <1>2, <1>3, <1>4 DEF IInv

LEMMA NextIInv == IInv /\ [Next]_vars => IInv'
<1> SUFFICES ASSUME IInv, [Next]_vars PROVE IInv'
  OBVIOUS
<1>1. CASE Registration
  <2>1. ASSUME NEW w \in Workers, NEW P \in {{}} \cup {{p} : p \in Projects},
               Register(w, P)
        PROVE  IInv'
    <3>1. P \in SUBSET Projects
      OBVIOUS
    <3> QED
      BY <2>1, <3>1, RegisterStep
  <2> QED
    BY <1>1, <2>1, RegisterAllocateStep DEF Registration
<1>2. ASSUME NEW i \in Invocations, Starts(i) PROVE IInv'
  <2>1. ASSUME NEW s \in Days, StartConfigure(i, s) PROVE IInv'
    <3> DEFINE r == [op |-> "gang_configure", start |-> s,
                     version |-> gang.version]
    <3>1. Do(i, r) /\ r.op = "gang_configure"
          /\ UNCHANGED << worker, allocation, daily, debit, revision, cycle >>
      BY <2>1 DEF StartConfigure, Begin, rosterVars, payrollVars
    <3> HIDE DEF r
    <3> QED
      BY <3>1, OtherStep
  <2>2. ASSUME NEW id \in AdvanceIds, NEW w \in Workers, NEW d \in Days,
               NEW p \in Projects, NEW n \in 1..MaxAmount,
               StartAdvance(i, id, w, d, p, n)
        PROVE  IInv'
    <3> DEFINE item == [worker |-> w, project |-> p, day |-> d, amount |-> n,
                        remaining |-> n, cleared |-> 0, status |-> "Active",
                        excluded |-> ExcludedFrom(cycle[p]), version |-> 0]
               r == [op |-> "advance", id |-> id, cycle |-> cycle[p].id,
                     item |-> item]
    <3>1. Do(i, r) /\ r.op = "advance"
          /\ UNCHANGED << worker, allocation, daily, debit, revision, cycle >>
      BY <2>2 DEF StartAdvance, Begin, rosterVars, payrollVars
    <3> HIDE DEF r
    <3> QED
      BY <3>1, OtherStep
  <2>3. ASSUME NEW op \in {"advance_clear", "advance_delete"},
               NEW id \in ActionIds, NEW target \in AdvanceIds,
               NEW n \in 1..MaxAmount, StartClearing(i, op, id, target, n)
        PROVE  IInv'
    <3> DEFINE r == [op |-> op, target |-> target, amount |-> n,
                     receipt |-> [project |-> advance[target].project, id |-> id],
                     before |-> advance[target]]
    <3>1. Do(i, r) /\ r.op = op
          /\ UNCHANGED << worker, allocation, daily, debit, revision, cycle >>
      BY <2>3 DEF StartClearing, Begin, rosterVars, payrollVars
    <3> HIDE DEF r
    <3> QED
      BY <3>1, OtherStep
  <2> QED
    BY <1>2, <2>1, <2>2, <2>3, StartAllocateStep, StartAttendanceStep,
       StartDebitStep, StartGenerateStep DEF Starts
<1>3. ASSUME NEW i \in Invocations, Commits(i) PROVE IInv'
  <2>1. ASSUME CommitConfigure(i) PROVE IInv'
    <3>1. Do(i, Idle) /\ Idle.op = "idle"
          /\ UNCHANGED << worker, allocation, daily, debit, revision, cycle >>
      BY <2>1 DEF CommitConfigure, Idle, payrollVars
    <3> QED
      BY <3>1, OtherStep
  <2> QED
    BY <1>3, <2>1, CommitAllocateStep, CommitAttendanceStep, CommitDebitStep,
       CommitAdvanceStep, CommitClearingStep, ReadRosterStep, ReadMonthStep,
       ReadAdvancesStep, CommitGenerateStep DEF Commits
<1>4. ASSUME NEW i \in Invocations, Abandon(i) PROVE IInv'
  <2>1. Do(i, Idle) /\ Idle.op = "idle"
        /\ UNCHANGED << worker, allocation, daily, debit, revision, cycle >>
    BY <1>4 DEF Abandon, Idle, rosterVars, payrollVars
  <2> QED
    BY <2>1, OtherStep
<1>5. CASE UNCHANGED vars
  <2>1. UNCHANGED << worker, allocation, daily, debit, revision, cycle, req >>
    BY <1>5 DEF vars
  <2>2. ItemTypes /\ AttendanceLocks /\ EntriesCurrent /\ DOMAIN req = Invocations
    BY DEF IInv
  <2>3. \A q \in Projects : \A w \in Workers : DebitsOf(q, w)' = DebitsOf(q, w)
    BY <2>1 DEF DebitsOf
  <2>4. ItemTypes' /\ AttendanceLocks'
    BY <2>1, <2>2 DEF ItemTypes, AttendanceLocks
  <2>5. EntriesCurrent'
    BY <2>1, <2>3, RegistersKept
  <2>6. \A k \in Invocations : RequestOK(req[k])'
    BY <2>1, <2>2, <2>3, RequestsStay DEF ItemTypes
  <2> QED
    BY <2>1, <2>2, <2>4, <2>5, <2>6 DEF IInv
<1> QED
  BY <1>1, <1>2, <1>3, <1>4, <1>5, ReopenStep, SettleStep DEF Next

-----------------------------------------------------------------------------
(* Advances: types and what a step leaves alone.                            *)

\* The types that ItemTypes does not list
AdvanceTypes ==
  /\ gang \in [from: SUBSET Days, version: Nat]
  /\ advance \in [AdvanceIds -> {NoAdvance} \cup Advances]
  /\ clearing \in [ReceiptKeys -> {NoClearing} \cup Receipts]
  /\ advanced \in [Projects -> [Workers -> Nat]]
  /\ cycle \in [Projects -> Cycles]
  /\ nextId \in Nat \ {0}

LEMMA AllTypes ==
  /\ TypeOK => ItemTypes /\ AdvanceTypes
  /\ ItemTypes /\ AdvanceTypes => TypeOK
<1>1. \A c \in Cycles : DOMAIN c = DOMAIN NoCycle /\ c.members \subseteq Workers
  BY DEF Cycles, NoCycle
<1>2. TypeOK => ItemTypes
  BY <1>1 DEF TypeOK, ItemTypes
<1> QED
  BY <1>2 DEF TypeOK, ItemTypes, AdvanceTypes

\* Items are not the absent ones.
LEMMA Present ==
  /\ NoAdvance \notin Advances /\ NoClearing \notin Receipts
  /\ NoCycle \in Cycles
  /\ \A a \in Advances : /\ a.worker \in Workers /\ a.project \in Projects
                         /\ a.amount \in Nat /\ a.remaining \in Nat
                         /\ a.cleared \in Nat /\ a.version \in Nat
                         /\ a.excluded \subseteq Nat
<1>1. NoAdvance \notin Advances
  <2>1. \A a \in Advances : "worker" \in DOMAIN a
    BY DEF Advances
  <2>2. "worker" \notin DOMAIN NoAdvance
    BY DEF NoAdvance
  <2> QED
    BY <2>1, <2>2
<1>2. NoClearing \notin Receipts
  <2>1. \A a \in Receipts : "op" \in DOMAIN a
    BY DEF Receipts
  <2>2. "op" \notin DOMAIN NoClearing
    BY DEF NoClearing
  <2> QED
    BY <2>1, <2>2
<1>3. NoCycle \in Cycles
  BY DEF NoCycle, Nothing, Cycles, Statuses
<1> QED
  BY <1>1, <1>2, <1>3 DEF Advances

LEMMA ReceiptKeysFinite == IsFiniteSet(ReceiptKeys)
<1> DEFINE f == [x \in Projects \X ActionIds |-> [project |-> x[1], id |-> x[2]]]
<1>1. IsFiniteSet(Projects \X ActionIds)
  BY WorkersAssumption, FS_Product
<1>2. f \in Surjection(Projects \X ActionIds, ReceiptKeys)
  <2>1. ASSUME NEW k \in ReceiptKeys
        PROVE  \E x \in Projects \X ActionIds : f[x] = k
    <3>1. k.project \in Projects /\ k.id \in ActionIds
      BY DEF ReceiptKeys
    <3>2. f[<< k.project, k.id >>] = k
      BY <3>1 DEF ReceiptKeys
    <3> QED
      BY <3>1, <3>2
  <2>2. f \in [Projects \X ActionIds -> ReceiptKeys]
    BY DEF ReceiptKeys
  <2> QED
    BY <2>1, <2>2 DEF Surjection
<1> QED
  BY <1>1, <1>2, FS_Surjection

\* What a request has read of the advances stays right when no advance goes
\* back or changes without a new version, no id is given again, and a month's
\* total changes with its revision only.
LEMMA AdvanceRequestKept ==
  ASSUME NEW r, AdvanceRequest(r), ItemTypes, AdvanceTypes,
         revision' \in [Projects -> Nat], AdvanceTypes', nextId' >= nextId,
         \A id \in AdvanceIds : advance[id] # NoAdvance =>
           /\ advance'[id] # NoAdvance
           /\ \/ advance'[id] = advance[id]
              \/ advance'[id].version > advance[id].version,
         \A p \in Projects :
           \/ revision'[p] > revision[p]
           \/ revision'[p] = revision[p] /\ advanced'[p] = advanced[p]
  PROVE  AdvanceRequest(r)'
<1>1. r.op = "gang_configure" => r.start \in Days
  BY DEF AdvanceRequest
<1>2. ASSUME r.op = "advance" PROVE Giving(r)'
  <2>1. Giving(r) /\ nextId \in Nat /\ nextId' \in Nat
    BY <1>2 DEF AdvanceRequest, AdvanceTypes
  <2>2. r.cycle \in Nat /\ r.cycle < nextId'
    BY <2>1 DEF Giving
  <2> QED
    BY <2>1, <2>2 DEF Giving
<1>3. ASSUME r.op \in {"advance_clear", "advance_delete"} PROVE Clearing(r)'
  <2> DEFINE t == r.target
  <2>1. Clearing(r)
    BY <1>3 DEF AdvanceRequest
  <2>2. t \in AdvanceIds /\ advance[t] # NoAdvance /\ r.before \in Advances
    BY <2>1 DEF Clearing
  <2>3. r.before.version \in Nat /\ advance[t].version \in Nat
        /\ advance'[t].version \in Nat /\ advance'[t] # NoAdvance
    BY <2>2, Present DEF AdvanceTypes
  <2>4. /\ r.before.version <= advance[t].version
        /\ r.before.version = advance[t].version => advance[t] = r.before
    BY <2>1 DEF Clearing
  <2>5. advance'[t] = advance[t] \/ advance'[t].version > advance[t].version
    BY <2>2
  <2>6. /\ r.before.version <= advance'[t].version
        /\ r.before.version = advance'[t].version => advance'[t] = r.before
    BY <2>3, <2>4, <2>5
  <2> QED
    BY <2>1, <2>3, <2>6 DEF Clearing
<1>4. ASSUME r.op = "generate" PROVE Recovering(r)'
  <2>1. Recovering(r)
    BY <1>4 DEF AdvanceRequest
  <2>2. /\ r.project \in Projects /\ r.revision \in Nat
        /\ r.revision <= revision[r.project]
    BY <2>1 DEF Recovering, Generations
  <2>3. revision[r.project] \in Nat /\ revision'[r.project] \in Nat
    BY <2>2 DEF ItemTypes
  <2>4. r.revision = revision'[r.project] =>
          r.revision = revision[r.project]
          /\ advanced'[r.project] = advanced[r.project]
    BY <2>2, <2>3
  <2>5. r.revision <= revision'[r.project]
    BY <2>2, <2>3
  <2> QED
    BY <2>1, <2>4, <2>5 DEF Recovering
<1> QED
  BY <1>1, <1>2, <1>3, <1>4 DEF AdvanceRequest

\* The same of all requests after a step.
LEMMA AdvanceRequestsKept ==
  ASSUME ItemTypes, AdvanceTypes, AdvanceTypes',
         revision' \in [Projects -> Nat], nextId' >= nextId,
         \A id \in AdvanceIds : advance[id] # NoAdvance =>
           /\ advance'[id] # NoAdvance
           /\ \/ advance'[id] = advance[id]
              \/ advance'[id].version > advance[id].version,
         \A p \in Projects :
           \/ revision'[p] > revision[p]
           \/ revision'[p] = revision[p] /\ advanced'[p] = advanced[p],
         \A k \in Invocations : AdvanceRequest(req'[k])
  PROVE  \A k \in Invocations : AdvanceRequest(req[k])'
<1> SUFFICES ASSUME NEW k \in Invocations PROVE AdvanceRequest(req[k])'
  OBVIOUS
<1>1. PICK q : q = req'[k]
  OBVIOUS
<1>2. AdvanceRequest(q)
  BY <1>1
<1>3. AdvanceRequest(q)'
  BY <1>2, AdvanceRequestKept
<1> QED
  BY <1>1, <1>3 DEF AdvanceRequest, Giving, Clearing, Recovering

\* One invocation goes on to a request that is right.
LEMMA GoesOn ==
  ASSUME AdvanceInv, IInv, NEW i \in Invocations, NEW r, AdvanceRequest(r), Do(i, r)
  PROVE  \A k \in Invocations : AdvanceRequest(req'[k])
<1>1. \A k \in Invocations : req'[k] = IF k = i THEN r ELSE req[k]
  BY DEF IInv, Do
<1> QED
  BY <1>1 DEF AdvanceInv

LEMMA IdleRequest == AdvanceRequest(Idle)
BY DEF AdvanceRequest, Idle

\* A step that leaves advances and registers alone.
LEMMA QuietStep ==
  ASSUME IInv, IInv', AdvanceInv,
         UNCHANGED << advance, clearing, advanced, cycle, nextId >>,
         gang' \in [from: SUBSET Days, version: Nat],
         \A p \in Projects : revision'[p] >= revision[p],
         \A k \in Invocations : AdvanceRequest(req'[k])
  PROVE  AdvanceInv'
<1>1. ItemTypes /\ ItemTypes' /\ AdvanceTypes
  BY AllTypes DEF IInv, AdvanceInv
<1>2. AdvanceTypes'
  BY <1>1 DEF AdvanceTypes
<1>3. TypeOK'
  BY <1>1, <1>2, AllTypes DEF TypeOK, ItemTypes, AdvanceTypes
<1>4. AdvanceItems' /\ ClearedOnce'
  BY DEF AdvanceInv, AdvanceItems, ClearedOnce, ClearedOf
<1>5. \A p, w : LeftOf(p, w)' = LeftOf(p, w) /\ LeftFor(p, w)' = LeftFor(p, w)
  BY DEF LeftOf, LeftFor, AdvancesOf
<1>6. AdvanceTotals' /\ RecoveryCurrent'
  BY <1>5 DEF AdvanceInv, AdvanceTotals, RecoveryCurrent
<1>7. \A p \in Projects :
        \/ revision'[p] > revision[p]
        \/ revision'[p] = revision[p] /\ advanced'[p] = advanced[p]
  <2>1. \A p \in Projects : revision[p] \in Nat /\ revision'[p] \in Nat
    BY <1>1 DEF ItemTypes
  <2> QED
    BY <2>1
<1>8. nextId' >= nextId
  BY <1>1 DEF AdvanceTypes
<1>9. revision' \in [Projects -> Nat]
  BY <1>1 DEF ItemTypes
<1>10. \A k \in Invocations : AdvanceRequest(req[k])'
  BY <1>1, <1>2, <1>7, <1>8, <1>9, AdvanceRequestsKept
<1> QED
  BY <1>3, <1>4, <1>6, <1>10 DEF AdvanceInv

\* Of a kind that the advances do not depend on, or stopped.
LEMMA OtherAdvanceStep ==
  ASSUME IInv, IInv', AdvanceInv, NEW i \in Invocations, NEW r, Do(i, r),
         r.op \in {"idle", "attendance", "allocate", "debit"},
         UNCHANGED << advance, clearing, advanced, cycle, nextId >>,
         gang' \in [from: SUBSET Days, version: Nat],
         UNCHANGED revision \/ \E p : Touch(p)
  PROVE  AdvanceInv'
<1>1. AdvanceRequest(r)
  BY DEF AdvanceRequest
<1>2. \A k \in Invocations : AdvanceRequest(req'[k])
  BY <1>1, GoesOn
<1>3. \A p \in Projects : revision'[p] >= revision[p]
  <2>1. ItemTypes
    BY DEF IInv
  <2>2. \A p \in Projects : revision[p] \in Nat
    BY <2>1 DEF ItemTypes
  <2>3. CASE UNCHANGED revision
    BY <2>2, <2>3
  <2>4. CASE \E p : Touch(p)
    BY <2>1, <2>2, <2>4, TouchKeeps
  <2> QED
    BY <2>3, <2>4
<1> QED
  BY <1>2, <1>3, QuietStep

\* An invocation reads, and nothing is written.
LEMMA AdvanceReadStep ==
  ASSUME IInv, IInv', AdvanceInv, NEW i \in Invocations, NEW r,
         AdvanceRequest(r), Do(i, r),
         UNCHANGED << gang, advanceVars, revision, payrollVars >>
  PROVE  AdvanceInv'
<1>1. \A k \in Invocations : AdvanceRequest(req'[k])
  BY GoesOn
<1>2. AdvanceTypes /\ ItemTypes
  BY AllTypes DEF IInv, AdvanceInv
<1>3. \A p \in Projects : revision'[p] >= revision[p]
  <2>1. \A p \in Projects : revision[p] \in Nat
    BY <1>2 DEF ItemTypes
  <2> QED
    BY <2>1
<1>4. UNCHANGED << advance, clearing, advanced, cycle, nextId >>
  BY DEF advanceVars, payrollVars
<1>5. gang' \in [from: SUBSET Days, version: Nat]
  BY <1>2 DEF AdvanceTypes
<1> QED
  BY <1>1, <1>3, <1>4, <1>5, QuietStep

LEMMA StartConfigureKeeps ==
  ASSUME IInv, IInv', AdvanceInv, NEW i \in Invocations, NEW s \in Days,
         StartConfigure(i, s)
  PROVE  AdvanceInv'
<1> DEFINE r == [op |-> "gang_configure", start |-> s, version |-> gang.version]
<1>1. Do(i, r) /\ UNCHANGED << gang, advanceVars, revision, payrollVars >>
  BY DEF StartConfigure, Begin, rosterVars
<1>2. AdvanceRequest(r)
  BY DEF AdvanceRequest
<1> HIDE DEF r
<1> QED
  BY <1>1, <1>2, AdvanceReadStep

\* An advance that is given excludes the register it was given under.
LEMMA StartAdvanceKeeps ==
  ASSUME IInv, IInv', AdvanceInv, NEW i \in Invocations, NEW id \in AdvanceIds,
         NEW w \in Workers, NEW d \in Days, NEW p \in Projects,
         NEW n \in 1..MaxAmount, StartAdvance(i, id, w, d, p, n)
  PROVE  AdvanceInv'
<1> DEFINE item == [worker |-> w, project |-> p, day |-> d, amount |-> n,
                    remaining |-> n, cleared |-> 0, status |-> "Active",
                    excluded |-> ExcludedFrom(cycle[p]), version |-> 0]
           r == [op |-> "advance", id |-> id, cycle |-> cycle[p].id, item |-> item]
<1>1. Do(i, r) /\ UNCHANGED << gang, advanceVars, revision, payrollVars >>
  BY DEF StartAdvance, Begin, rosterVars
<1>2. AdvanceTypes /\ AdvanceItems
  BY AllTypes DEF AdvanceInv
<1>3. cycle[p].id \in Nat /\ nextId \in Nat
  BY <1>2 DEF AdvanceTypes, Cycles
<1>4. cycle[p].id < nextId /\ (cycle[p].id = 0 <=> cycle[p] = NoCycle)
  <2>1. NoCycle.id = 0
    BY DEF NoCycle
  <2> QED
    BY <1>2, <2>1 DEF AdvanceItems
<1>5. ExcludedFrom(cycle[p]) = IF cycle[p].id = 0 THEN {} ELSE {cycle[p].id}
  BY <1>4 DEF ExcludedFrom
<1>6. n \in Nat
  OBVIOUS
<1>7. item \in Advances
  BY <1>3, <1>5, <1>6 DEF Advances
<1>8. r.id = id /\ r.cycle = cycle[p].id /\ r.item = item /\ r.op = "advance"
      /\ item.remaining = item.amount /\ item.cleared = 0
      /\ item.status = "Active" /\ item.excluded = ExcludedFrom(cycle[p])
  OBVIOUS
<1> HIDE DEF item, r
<1>9. Giving(r)
  BY <1>3, <1>4, <1>5, <1>7, <1>8 DEF Giving
<1>10. AdvanceRequest(r)
  BY <1>8, <1>9 DEF AdvanceRequest
<1> QED
  BY <1>1, <1>10, AdvanceReadStep

LEMMA StartClearingKeeps ==
  ASSUME IInv, IInv', AdvanceInv, NEW i \in Invocations,
         NEW op \in {"advance_clear", "advance_delete"}, NEW id \in ActionIds,
         NEW target \in AdvanceIds, NEW n \in 1..MaxAmount,
         StartClearing(i, op, id, target, n)
  PROVE  AdvanceInv'
<1> DEFINE a == advance[target]
           receipt == [project |-> a.project, id |-> id]
           r == [op |-> op, receipt |-> receipt, target |-> target,
                 amount |-> n, before |-> a]
<1>1. /\ Do(i, r) /\ UNCHANGED << gang, advanceVars, revision, payrollVars >>
      /\ a # NoAdvance /\ a.status = "Active"
      /\ op = "advance_clear" => n <= a.remaining
      /\ op = "advance_delete" => n = a.remaining
  BY DEF StartClearing, Begin, rosterVars
<1>2. a \in Advances
  BY <1>1, AllTypes DEF AdvanceInv, AdvanceTypes
<1>3. a.project \in Projects /\ a.remaining \in Nat /\ a.version \in Nat
  BY <1>2, Present
<1>4. receipt \in ReceiptKeys
  BY <1>3 DEF ReceiptKeys
<1>5. n \in Nat /\ n <= a.remaining
  BY <1>1, <1>3
<1>6. /\ r.op = op /\ r.receipt = receipt /\ r.target = target /\ r.amount = n
      /\ r.before = a
  OBVIOUS
<1> HIDE DEF r, receipt
<1>7. Clearing(r)
  BY <1>1, <1>2, <1>3, <1>4, <1>5, <1>6 DEF Clearing
<1>8. AdvanceRequest(r)
  BY <1>6, <1>7 DEF AdvanceRequest
<1> QED
  BY <1>1, <1>8, AdvanceReadStep

LEMMA StartGenerateKeeps ==
  ASSUME IInv, IInv', AdvanceInv, NEW i \in Invocations, NEW p \in Projects,
         StartGenerate(i, p)
  PROVE  AdvanceInv'
<1> DEFINE r == [op |-> "generate", next |-> "roster", project |-> p,
                 revision |-> revision[p], known |-> {}, entry |-> NoCycle]
<1>1. Do(i, r) /\ UNCHANGED << gang, advanceVars, revision, payrollVars >>
  BY DEF StartGenerate, Begin, rosterVars
<1>2. revision[p] \in Nat
  BY DEF IInv, ItemTypes
<1>3. r \in Generations
  BY <1>2, Present DEF Generations
<1>4. r.op = "generate" /\ r.next = "roster" /\ r.revision <= revision[r.project]
  BY <1>2
<1> HIDE DEF r
<1>5. AdvanceRequest(r)
  BY <1>3, <1>4 DEF AdvanceRequest, Recovering
<1> QED
  BY <1>1, <1>5, AdvanceReadStep

\* What ReadMonth reads are sums of whole numbers.
LEMMA SumsTyped ==
  ASSUME TypeOK, NEW p \in Projects, NEW w \in Workers
  PROVE  GrossOf(p, w) \in Int /\ PaidOf(p, w) \in Int /\ DebitsOf(p, w) \in Int
<1> DEFINE wages == [d \in Days |-> daily[p][w][d].wage]
           cash == {d \in Days : daily[p][w][d].paid}
           D == {id \in DebitIds : debit[id] # NoDebit /\ debit[id].worker = w
                                   /\ debit[id].project = p}
           amounts == [id \in D |-> debit[id].amount]
<1>1. IsFiniteSet(Days) /\ IsFiniteSet(cash)
  <2>1. IsFiniteSet(Days)
    BY WorkersAssumption, FS_Interval DEF Days
  <2> QED
    BY <2>1, FS_Subset
<1>2. IsFiniteSet(D)
  BY WorkersAssumption, FS_Subset
<1>3. \A d \in Days : wages[d] \in Int
  BY DEF TypeOK
<1>4. \A id \in D : amounts[id] \in Int
  <2>1. \A id \in D : debit[id] \in Debits
    BY DEF TypeOK
  <2> QED
    BY <2>1 DEF Debits
<1>5. cash \subseteq Days
  OBVIOUS
<1> HIDE DEF wages, cash, D, amounts
<1>6. Sum(Days, wages) \in Int /\ Sum(cash, wages) \in Int
  BY <1>1, <1>3, <1>5, SumType
<1>7. Sum(D, amounts) \in Int
  BY <1>2, <1>4, SumType
<1> QED
  BY <1>6, <1>7 DEF GrossOf, PaidOf, DebitsOf, wages, cash, D, amounts

LEMMA ReadRosterKeeps ==
  ASSUME IInv, IInv', AdvanceInv, NEW i \in Invocations, ReadRoster(i)
  PROVE  AdvanceInv'
<1> DEFINE known == {w \in Workers : worker[w].known}
           members == {w \in known : req[i].project \in AtStart(w)}
           r == [req[i] EXCEPT !.next = "month", !.known = known,
                               !.entry.members = members]
<1>1. req[i].op = "generate" /\ Do(i, r)
      /\ UNCHANGED << gang, advanceVars, revision, payrollVars >>
  BY DEF ReadRoster, Serves, rosterVars
<1>2. Recovering(req[i])
  BY <1>1 DEF AdvanceInv, AdvanceRequest
<1>3. known \subseteq Workers /\ members \subseteq Workers
  OBVIOUS
<1> HIDE DEF known, members
<1>4. req[i] \in Generations
  BY <1>2 DEF Recovering
<1>5. r \in Generations /\ r.op = "generate" /\ r.next = "month"
      /\ r.project = req[i].project /\ r.revision = req[i].revision
  <2>1. [req[i].entry EXCEPT !.members = members] \in Cycles
    BY <1>3, <1>4 DEF Generations, Cycles
  <2> QED
    BY <1>3, <1>4, <2>1 DEF Generations
<1> HIDE DEF r
<1>6. AdvanceRequest(r)
  BY <1>2, <1>5 DEF AdvanceRequest, Recovering
<1> QED
  BY <1>1, <1>6, AdvanceReadStep

LEMMA ReadMonthKeeps ==
  ASSUME IInv, IInv', AdvanceInv, NEW i \in Invocations, ReadMonth(i)
  PROVE  AdvanceInv'
<1> DEFINE p == req[i].project
           listed == req[i].entry.members \cup
             {w \in req[i].known : \E d \in Days : daily[p][w][d].version > 0}
           gross == [w \in Workers |-> GrossOf(p, w)]
           paid == [w \in Workers |-> PaidOf(p, w)]
           debits == [w \in Workers |-> DebitsOf(p, w)]
           r == [req[i] EXCEPT !.next = "advances", !.known = {},
                               !.entry.members = listed, !.entry.gross = gross,
                               !.entry.paid = paid, !.entry.debits = debits]
<1>1. req[i].op = "generate" /\ Do(i, r)
      /\ UNCHANGED << gang, advanceVars, revision, payrollVars >>
  BY DEF ReadMonth, Serves, rosterVars
<1>2. Recovering(req[i])
  BY <1>1 DEF AdvanceInv, AdvanceRequest
<1>3. req[i] \in Generations
  BY <1>2 DEF Recovering
<1>4. p \in Projects /\ listed \subseteq Workers
  BY <1>3 DEF Generations, Cycles
<1>5. gross \in [Workers -> Int] /\ paid \in [Workers -> Int]
      /\ debits \in [Workers -> Int]
  BY <1>4, SumsTyped DEF AdvanceInv
<1> HIDE DEF listed, gross, paid, debits
<1>6. r \in Generations /\ r.op = "generate" /\ r.next = "advances"
      /\ r.project = req[i].project /\ r.revision = req[i].revision
  <2>1. [req[i].entry EXCEPT !.members = listed, !.gross = gross, !.paid = paid,
                             !.debits = debits] \in Cycles
    BY <1>3, <1>4, <1>5 DEF Generations, Cycles
  <2> QED
    BY <1>3, <2>1 DEF Generations
<1> HIDE DEF r
<1>7. AdvanceRequest(r)
  BY <1>2, <1>6 DEF AdvanceRequest, Recovering
<1> QED
  BY <1>1, <1>7, AdvanceReadStep

\* The register recovers the month's advances of each of its workers.
LEMMA ReadAdvancesKeeps ==
  ASSUME IInv, IInv', AdvanceInv, NEW i \in Invocations, ReadAdvances(i)
  PROVE  AdvanceInv'
<1> DEFINE p == req[i].project
           recovery == [w \in Workers |-> IF w \in req[i].entry.members
                                          THEN advanced[p][w] ELSE 0]
           r == [req[i] EXCEPT !.next = "commit", !.entry.recovery = recovery]
<1>1. req[i].op = "generate" /\ Do(i, r)
      /\ UNCHANGED << gang, advanceVars, revision, payrollVars >>
  BY DEF ReadAdvances, Serves, rosterVars
<1>2. Recovering(req[i])
  BY <1>1 DEF AdvanceInv, AdvanceRequest
<1>3. req[i] \in Generations
  BY <1>2 DEF Recovering
<1>4. p \in Projects /\ req[i].entry.members \subseteq Workers
  BY <1>3 DEF Generations, Cycles
<1>5. recovery \in [Workers -> Int]
      /\ \A w \in req[i].entry.members : recovery[w] = advanced[p][w]
  BY <1>4 DEF AdvanceInv, TypeOK
<1> HIDE DEF recovery
<1>6. /\ r \in Generations /\ r.op = "generate"
      /\ r.project = req[i].project /\ r.revision = req[i].revision
      /\ r.entry.members = req[i].entry.members /\ r.entry.recovery = recovery
  <2>1. [req[i].entry EXCEPT !.recovery = recovery] \in Cycles
        /\ [req[i].entry EXCEPT !.recovery = recovery].recovery = recovery
        /\ [req[i].entry EXCEPT !.recovery = recovery].members
             = req[i].entry.members
    BY <1>3, <1>5 DEF Generations, Cycles
  <2> QED
    BY <1>3, <2>1 DEF Generations
<1> HIDE DEF r
<1>7. AdvanceRequest(r)
  BY <1>2, <1>5, <1>6 DEF AdvanceRequest, Recovering
<1> QED
  BY <1>1, <1>7, AdvanceReadStep

-----------------------------------------------------------------------------
(* Advances: steps that write.                                              *)

\* The parts of a total of advances are whole numbers.
LEMMA LeftTyped ==
  ASSUME advance \in [AdvanceIds -> {NoAdvance} \cup Advances], NEW p, NEW w
  PROVE  LeftOf(p, w) \in [AdvanceIds -> Nat]
<1>1. \A id \in AdvancesOf(p, w) : advance[id] \in Advances
  BY DEF AdvancesOf
<1> QED
  BY <1>1, Present DEF LeftOf

\* One advance is given or changed, and its worker's total moves by as much.
LEMMA TotalsMove ==
  ASSUME AdvanceTypes, AdvanceTotals, NEW id \in AdvanceIds, NEW b \in Advances,
         advance' = [advance EXCEPT ![id] = b],
         advance[id] # NoAdvance =>
           advance[id].project = b.project /\ advance[id].worker = b.worker,
         NEW n \in Int,
         b.remaining =
           n + (IF advance[id] = NoAdvance THEN 0 ELSE advance[id].remaining),
         advanced' = [advanced EXCEPT ![b.project][b.worker] = @ + n]
  PROVE  AdvanceTotals' /\ advanced' \in [Projects -> [Workers -> Nat]]
<1> DEFINE p == b.project
           w == b.worker
<1>1. p \in Projects /\ w \in Workers /\ b # NoAdvance /\ b.remaining \in Nat
  BY Present
<1>2. advance' \in [AdvanceIds -> {NoAdvance} \cup Advances]
      /\ \A x \in AdvanceIds : advance'[x] = IF x = id THEN b ELSE advance[x]
  BY DEF AdvanceTypes
<1>3. \A q, v : LeftOf(q, v) \in [AdvanceIds -> Nat]
                /\ LeftOf(q, v)' \in [AdvanceIds -> Nat]
  <2>1. ASSUME NEW q, NEW v PROVE LeftOf(q, v)' \in [AdvanceIds -> Nat]
    <3>1. \A x \in AdvanceIds : advance'[x] # NoAdvance => advance'[x] \in Advances
      BY <1>2
    <3> QED
      BY <3>1, Present DEF LeftOf, AdvancesOf
  <2>2. ASSUME NEW q, NEW v PROVE LeftOf(q, v) \in [AdvanceIds -> Nat]
    BY LeftTyped DEF AdvanceTypes
  <2> QED
    BY <2>1, <2>2
<1>4. /\ LeftOf(p, w)'[id] = b.remaining
      /\ LeftOf(p, w)[id] =
           IF advance[id] = NoAdvance THEN 0 ELSE advance[id].remaining
      /\ \A x \in AdvanceIds \ {id} : LeftOf(p, w)'[x] = LeftOf(p, w)[x]
  BY <1>1, <1>2 DEF LeftOf, AdvancesOf
<1>5. \A q, v : ~(q = p /\ v = w) => LeftOf(q, v)' = LeftOf(q, v)
  BY <1>1, <1>2 DEF LeftOf, AdvancesOf
<1>6. advanced \in [Projects -> [Workers -> Nat]]
  BY DEF AdvanceTypes
<1>7. PICK f \in [AdvanceIds -> Nat] : f = LeftOf(p, w)
  BY <1>3
<1>8. PICK h \in [AdvanceIds -> Nat] : h = LeftOf(p, w)'
  BY <1>3
<1> DEFINE u == advanced[p][w] + n
<1>9. IsTotal(AdvanceIds, f, advanced[p][w]) /\ advanced[p][w] \in Nat
  BY <1>1, <1>6, <1>7 DEF AdvanceTotals
<1>10. u = advanced[p][w] - f[id] + h[id]
  <2>1. f[id] \in Nat /\ h[id] \in Nat /\ h[id] = n + f[id]
    BY <1>4, <1>7, <1>8
  <2> QED
    BY <1>9, <2>1
<1>11. \A x \in AdvanceIds \ {id} : h[x] = f[x]
  BY <1>4, <1>7, <1>8
<1> HIDE DEF u
<1>12. IsTotal(AdvanceIds, h, u)
  BY <1>9, <1>10, <1>11, WorkersAssumption, TotalUpdate
<1>13. u \in Nat
  BY <1>12, WorkersAssumption, TotalNat
<1>14. /\ advanced' = [advanced EXCEPT ![p][w] = u]
       /\ advanced' \in [Projects -> [Workers -> Nat]]
       /\ \A q \in Projects, v \in Workers :
            advanced'[q][v] = IF q = p /\ v = w THEN u ELSE advanced[q][v]
  <2>1. advanced' = [advanced EXCEPT ![p][w] = u]
    BY <1>1, <1>6 DEF u
  <2> QED
    <3> DEFINE row == [advanced[p] EXCEPT ![w] = u]
    <3>1. row \in [Workers -> Nat]
          /\ \A v \in Workers : row[v] = IF v = w THEN u ELSE advanced[p][v]
      BY <1>1, <1>6, <1>13
    <3>2. advanced' = [advanced EXCEPT ![p] = row]
      BY <2>1
    <3> HIDE DEF row, p, w
    <3> QED
      BY <1>1, <1>6, <2>1, <3>1, <3>2
<1>15. ASSUME NEW q \in Projects, NEW v \in Workers
       PROVE  IsTotal(AdvanceIds, LeftOf(q, v)', advanced'[q][v])
  <2>1. CASE q = p /\ v = w
    <3>1. advanced'[q][v] = u /\ LeftOf(q, v)' = h
      BY <1>8, <1>14, <2>1
    <3> QED
      BY <1>12, <3>1
  <2>2. CASE ~(q = p /\ v = w)
    <3>1. IsTotal(AdvanceIds, LeftOf(q, v), advanced[q][v])
      BY DEF AdvanceTotals
    <3> QED
      BY <1>5, <1>14, <2>2, <3>1
  <2> QED
    BY <2>1, <2>2
<1>16. AdvanceTotals'
  BY <1>15 DEF AdvanceTotals
<1> QED
  BY <1>14, <1>16

\* A step that stores one advance, which has a new version or is new, moves its
\* worker's total and the month's revision, and leaves the registers alone.
LEMMA AdvanceMoves ==
  ASSUME IInv, IInv', AdvanceInv, NEW i \in Invocations, Do(i, Idle),
         NEW id \in AdvanceIds, NEW b \in Advances,
         advance' = [advance EXCEPT ![id] = b],
         advance[id] # NoAdvance =>
           /\ advance[id].project = b.project /\ advance[id].worker = b.worker
           /\ b.version > advance[id].version,
         NEW n \in Int,
         b.remaining =
           n + (IF advance[id] = NoAdvance THEN 0 ELSE advance[id].remaining),
         advanced' = [advanced EXCEPT ![b.project][b.worker] = @ + n],
         clearing' \in [ReceiptKeys -> {NoClearing} \cup Receipts],
         Touch(b.project), UNCHANGED << gang, cycle, nextId >>
  PROVE  /\ TypeOK' /\ AdvanceTotals'
         /\ \A k \in Invocations : AdvanceRequest(req[k])'
<1>1. ItemTypes /\ ItemTypes' /\ AdvanceTypes
  BY AllTypes DEF IInv, AdvanceInv
<1>2. AdvanceTotals' /\ advanced' \in [Projects -> [Workers -> Nat]]
  BY <1>1, TotalsMove DEF AdvanceInv
<1>3. AdvanceTypes'
  BY <1>1, <1>2 DEF AdvanceTypes
<1>4. ItemTypes' /\ AdvanceTypes' => TypeOK'
  BY AllTypes DEF TypeOK, ItemTypes, AdvanceTypes
<1>5. revision' \in [Projects -> Nat]
      /\ \A q \in Projects :
           revision'[q] = IF q = b.project THEN revision[q] + 1 ELSE revision[q]
  BY <1>1, TouchKeeps
<1>6. ASSUME NEW q \in Projects
      PROVE  \/ revision'[q] > revision[q]
             \/ revision'[q] = revision[q] /\ advanced'[q] = advanced[q]
  <2>1. revision[q] \in Nat
    BY <1>1 DEF ItemTypes
  <2>2. CASE q = b.project
    BY <1>5, <2>1, <2>2
  <2>3. CASE q # b.project
    BY <1>1, <1>5, <2>3 DEF AdvanceTypes
  <2> QED
    BY <2>2, <2>3
<1>7. ASSUME NEW x \in AdvanceIds, advance[x] # NoAdvance
      PROVE  /\ advance'[x] # NoAdvance
             /\ \/ advance'[x] = advance[x]
                \/ advance'[x].version > advance[x].version
  <2>1. advance'[x] = IF x = id THEN b ELSE advance[x]
    BY <1>1 DEF AdvanceTypes
  <2> QED
    BY <1>7, <2>1, Present
<1>8. nextId' >= nextId
  BY <1>1 DEF AdvanceTypes
<1>9. \A k \in Invocations : AdvanceRequest(req'[k])
  BY IdleRequest, GoesOn
<1>10. \A k \in Invocations : AdvanceRequest(req[k])'
  BY <1>1, <1>3, <1>5, <1>6, <1>7, <1>8, <1>9, AdvanceRequestsKept
<1> QED
  BY <1>1, <1>2, <1>3, <1>4, <1>10

LEMMA CommitAdvanceKeeps ==
  ASSUME IInv, IInv', AdvanceInv, NEW i \in Invocations, CommitAdvance(i)
  PROVE  AdvanceInv'
<1> DEFINE id == req[i].id
           b == req[i].item
<1>1. /\ req[i].op = "advance" /\ cycle[b.project].id = req[i].cycle
      /\ advance[id] = NoAdvance /\ advance' = [advance EXCEPT ![id] = b]
      /\ advanced' = [advanced EXCEPT ![b.project][b.worker] = @ + b.amount]
      /\ Touch(b.project) /\ Do(i, Idle)
      /\ UNCHANGED << gang, clearing, cycle, nextId >>
  BY DEF CommitAdvance, Serves, rosterVars, payrollVars
<1>2. Giving(req[i])
  BY <1>1 DEF AdvanceInv, AdvanceRequest
<1>3. id \in AdvanceIds /\ b \in Advances /\ b # NoAdvance
      /\ b.project \in Projects /\ b.worker \in Workers /\ b.amount \in Nat
      /\ b.remaining = b.amount /\ b.cleared = 0
      /\ b.excluded = IF req[i].cycle = 0 THEN {} ELSE {req[i].cycle}
  BY <1>2, Present DEF Giving
<1>4. AdvanceTypes /\ AdvanceItems
  BY AllTypes DEF AdvanceInv
<1> HIDE DEF id, b
<1>5. \A x \in AdvanceIds : advance'[x] = IF x = id THEN b ELSE advance[x]
  BY <1>1, <1>3, <1>4 DEF AdvanceTypes
<1>6. clearing' \in [ReceiptKeys -> {NoClearing} \cup Receipts]
  BY <1>1, <1>4 DEF AdvanceTypes
<1>7. b.amount \in Int /\ b.remaining = b.amount + 0
  BY <1>3
<1>8. /\ TypeOK' /\ AdvanceTotals'
      /\ \A k \in Invocations : AdvanceRequest(req[k])'
  BY <1>1, <1>3, <1>6, <1>7, AdvanceMoves
<1>9. AdvanceItems'
  <2>1. \A c \in b.excluded : 0 < c /\ c < nextId
    BY <1>2, <1>3, <1>4 DEF Giving, AdvanceTypes
  <2>2. \A x \in AdvanceIds : advance[x] # NoAdvance => advance'[x] # NoAdvance
    BY <1>3, <1>5
  <2>3. \A k \in ReceiptKeys : clearing[k] # NoClearing =>
          clearing[k].target \in AdvanceIds
    BY <1>4 DEF AdvanceTypes, Receipts
  <2>4. \A k \in ReceiptKeys : clearing[k] # NoClearing =>
          advance'[clearing[k].target] # NoAdvance
    BY <1>4, <2>2, <2>3 DEF AdvanceItems
  <2>5. \A x \in AdvanceIds : advance'[x] # NoAdvance =>
          \A c \in advance'[x].excluded : 0 < c /\ c < nextId
    BY <1>4, <1>5, <2>1 DEF AdvanceItems
  <2> QED
    BY <1>1, <1>4, <2>4, <2>5 DEF AdvanceItems
\* The register that was read is the one that exists, and it is excluded
<1>10. RecoveryCurrent'
  <2>1. ASSUME NEW q \in Projects, cycle[q] # NoCycle, NEW v
        PROVE  LeftFor(q, v)' = LeftFor(q, v)
    <3>1. b.project = q => cycle[q].id \in b.excluded
      BY <1>1, <1>3, <1>4, <2>1 DEF AdvanceItems
    <3>2. \A x \in AdvanceIds : LeftFor(q, v)'[x] = LeftFor(q, v)[x]
      BY <1>1, <1>3, <1>5, <3>1 DEF LeftFor, AdvancesOf
    <3> QED
      BY <3>2 DEF LeftFor
  <2> QED
    BY <1>1, <2>1 DEF AdvanceInv, RecoveryCurrent
<1>11. ClearedOnce'
  <2>1. ASSUME NEW x \in AdvanceIds PROVE ClearedOf(x)' = ClearedOf(x)
    BY <1>1 DEF ClearedOf
  <2>2. \A k \in ReceiptKeys : ClearedOf(id)[k] = 0
    BY <1>1, <1>4 DEF ClearedOf, AdvanceItems
  <2>3. IsTotal(ReceiptKeys, ClearedOf(id), 0)
    BY <2>2, ReceiptKeysFinite, TotalZero
  <2>4. b.remaining = b.amount - b.cleared
    BY <1>3
  <2>5. ASSUME NEW x \in AdvanceIds, advance'[x] # NoAdvance
        PROVE  /\ IsTotal(ReceiptKeys, ClearedOf(x)', advance'[x].cleared)
               /\ advance'[x].status # "Deleted" =>
                    advance'[x].remaining = advance'[x].amount - advance'[x].cleared
    <3>1. CASE x = id
      BY <1>3, <1>5, <2>1, <2>3, <2>4, <3>1
    <3>2. CASE x # id
      BY <1>5, <2>1, <2>5, <3>2 DEF AdvanceInv, ClearedOnce
    <3> QED
      BY <3>1, <3>2
  <2> QED
    BY <2>5 DEF ClearedOnce
<1> QED
  BY <1>8, <1>9, <1>10, <1>11 DEF AdvanceInv

LEMMA CommitClearingKeeps ==
  ASSUME IInv, IInv', AdvanceInv, NEW i \in Invocations, CommitClearing(i)
  PROVE  AdvanceInv'
<1> DEFINE r == req[i]
           a == r.before
           t == r.target
           n == r.amount
           b == IF r.op = "advance_clear" THEN Cleared(a, n) ELSE Deleted(a)
           receipt == [op |-> r.op, target |-> t, amount |-> n]
<1>1. /\ r.op \in {"advance_clear", "advance_delete"}
      /\ Unlocked(a.project) /\ advance[t].version = a.version
      /\ clearing[r.receipt] = NoClearing
      /\ advance' = [advance EXCEPT ![t] = b]
      /\ clearing' = [clearing EXCEPT ![r.receipt] = receipt]
      /\ advanced' = [advanced EXCEPT ![a.project][a.worker] = @ - n]
      /\ Touch(a.project) /\ Do(i, Idle)
      /\ UNCHANGED << gang, cycle, nextId >>
  BY DEF CommitClearing, UnchangedSince, rosterVars, payrollVars
<1>2. Clearing(r)
  BY <1>1 DEF AdvanceInv, AdvanceRequest
<1>3. /\ t \in AdvanceIds /\ r.receipt \in ReceiptKeys /\ a \in Advances
      /\ a.status = "Active" /\ n \in Nat /\ n <= a.remaining
      /\ r.op = "advance_delete" => n = a.remaining
      /\ advance[t] # NoAdvance /\ advance[t] = a
  BY <1>1, <1>2 DEF Clearing
<1>4. a.project \in Projects /\ a.worker \in Workers /\ a.remaining \in Nat
      /\ a.cleared \in Nat /\ a.version \in Nat /\ a.amount \in Nat
  BY <1>3, Present
<1>5. AdvanceTypes /\ AdvanceItems
  BY AllTypes DEF AdvanceInv
<1>6. receipt \in Receipts /\ receipt # NoClearing
      /\ receipt.op = r.op /\ receipt.target = t /\ receipt.amount = n
  <2>1. receipt \in Receipts
    BY <1>1, <1>3 DEF Receipts
  <2> QED
    BY <2>1, Present
<1>7. /\ b \in Advances /\ b.project = a.project /\ b.worker = a.worker
      /\ b.amount = a.amount /\ b.excluded = a.excluded
      /\ b.version = a.version + 1 /\ b.remaining = a.remaining - n
      /\ r.op = "advance_clear" => b.cleared = a.cleared + n
      /\ r.op = "advance_delete" => b.cleared = a.cleared /\ b.status = "Deleted"
  <2>1. CASE r.op = "advance_clear"
    <3>1. b = [a EXCEPT !.remaining = a.remaining - n, !.cleared = a.cleared + n,
                 !.version = a.version + 1,
                 !.status = IF a.remaining = n THEN "Cleared" ELSE "Active"]
      BY <2>1 DEF Cleared
    <3>2. a.remaining - n \in Nat /\ a.cleared + n \in Nat /\ a.version + 1 \in Nat
      BY <1>3, <1>4
    <3> HIDE DEF a, b, n, r
    <3>3. /\ b \in Advances /\ b.project = a.project /\ b.worker = a.worker
          /\ b.amount = a.amount /\ b.excluded = a.excluded
          /\ b.version = a.version + 1 /\ b.remaining = a.remaining - n
          /\ b.cleared = a.cleared + n
      BY <1>3, <3>1, <3>2 DEF Advances
    <3> QED
      BY <2>1, <3>3
  <2>2. CASE r.op = "advance_delete"
    <3>1. b = [a EXCEPT !.remaining = 0, !.version = a.version + 1,
                        !.status = "Deleted"]
      BY <2>2 DEF Deleted
    <3>2. a.remaining - n = 0 /\ a.version + 1 \in Nat
      BY <1>3, <1>4, <2>2
    <3> HIDE DEF a, b, n, r
    <3>3. /\ b \in Advances /\ b.project = a.project /\ b.worker = a.worker
          /\ b.amount = a.amount /\ b.excluded = a.excluded
          /\ b.version = a.version + 1 /\ b.remaining = 0
          /\ b.cleared = a.cleared /\ b.status = "Deleted"
      BY <1>3, <3>1, <3>2 DEF Advances
    <3> QED
      BY <2>2, <3>2, <3>3
  <2> QED
    BY <1>1, <2>1, <2>2
<1> HIDE DEF r, a, t, n, b, receipt
<1>8. /\ \A x \in AdvanceIds : advance'[x] = IF x = t THEN b ELSE advance[x]
      /\ \A k \in ReceiptKeys :
           clearing'[k] = IF k = r.receipt THEN receipt ELSE clearing[k]
      /\ clearing' \in [ReceiptKeys -> {NoClearing} \cup Receipts]
  BY <1>1, <1>3, <1>5, <1>6 DEF AdvanceTypes
<1>9. b # NoAdvance
  BY <1>7, Present
<1>10. /\ TypeOK' /\ AdvanceTotals'
       /\ \A k \in Invocations : AdvanceRequest(req[k])'
  <2> DEFINE m == 0 - n
  <2>1. m \in Int /\ b.remaining = m + a.remaining
    BY <1>3, <1>4, <1>7
  <2>2. advanced' = [advanced EXCEPT ![b.project][b.worker] = @ + m]
    <3>1. advanced[a.project][a.worker] \in Nat
      BY <1>4, <1>5 DEF AdvanceTypes
    <3>2. advanced[a.project][a.worker] - n = advanced[a.project][a.worker] + m
      BY <1>3, <3>1
    <3> QED
      BY <1>1, <1>7, <3>2
  <2>3. b.version > a.version
    BY <1>4, <1>7
  <2> HIDE DEF m
  <2>4. Touch(b.project) /\ UNCHANGED << gang, cycle, nextId >>
    BY <1>1, <1>7
  <2> QED
    BY <1>1, <1>3, <1>7, <1>8, <2>1, <2>2, <2>3, <2>4, AdvanceMoves
<1>11. AdvanceItems'
  <2>1. \A x \in AdvanceIds : advance[x] # NoAdvance => advance'[x] # NoAdvance
    BY <1>8, <1>9
  <2>2. \A k \in ReceiptKeys : clearing'[k] # NoClearing =>
          clearing'[k].target \in AdvanceIds
          /\ advance[clearing'[k].target] # NoAdvance
    BY <1>3, <1>5, <1>6, <1>8 DEF AdvanceItems, AdvanceTypes, Receipts
  <2>3. \A k \in ReceiptKeys : clearing'[k] # NoClearing =>
          advance'[clearing'[k].target] # NoAdvance
    BY <2>1, <2>2
  <2>4. \A x \in AdvanceIds : advance'[x] # NoAdvance =>
          \A c \in advance'[x].excluded : 0 < c /\ c < nextId
    BY <1>3, <1>5, <1>7, <1>8 DEF AdvanceItems
  <2> QED
    BY <1>1, <1>5, <2>3, <2>4 DEF AdvanceItems
\* The project has no register, and the others recover none of this advance
<1>12. RecoveryCurrent'
  <2>1. ASSUME NEW q \in Projects, cycle[q] # NoCycle, NEW v
        PROVE  LeftFor(q, v)' = LeftFor(q, v)
    <3>1. a.project # q
      BY <1>1, <2>1 DEF Unlocked
    <3>2. \A x \in AdvanceIds : LeftFor(q, v)'[x] = LeftFor(q, v)[x]
      BY <1>1, <1>3, <1>7, <1>8, <3>1 DEF LeftFor, AdvancesOf
    <3> QED
      BY <3>2 DEF LeftFor
  <2> QED
    BY <1>1, <2>1 DEF AdvanceInv, RecoveryCurrent
<1>13. ClearedOnce'
  <2>1. \A x \in AdvanceIds, k \in ReceiptKeys :
          ClearedOf(x)'[k] = IF k = r.receipt
                             THEN IF x = t /\ r.op = "advance_clear" THEN n ELSE 0
                             ELSE ClearedOf(x)[k]
    BY <1>3, <1>6, <1>8 DEF ClearedOf
  <2>2. \A x \in AdvanceIds : ClearedOf(x)[r.receipt] = 0
    BY <1>1, <1>3 DEF ClearedOf
  <2>3. \A x \in AdvanceIds :
          x # t \/ r.op # "advance_clear" => ClearedOf(x)' = ClearedOf(x)
    <3>1. \A x \in AdvanceIds : x # t \/ r.op # "advance_clear" =>
            \A k \in ReceiptKeys : ClearedOf(x)'[k] = ClearedOf(x)[k]
      BY <2>1, <2>2
    <3> QED
      BY <3>1 DEF ClearedOf
  <2>4. /\ IsTotal(ReceiptKeys, ClearedOf(t), a.cleared)
        /\ a.remaining = a.amount - a.cleared
    BY <1>3 DEF AdvanceInv, ClearedOnce
  <2>5. CASE r.op = "advance_clear"
    <3>. PICK s \in AdvanceIds : s = t
      BY <1>3
    <3>1. \A k \in ReceiptKeys : clearing[k] # NoClearing =>
            clearing[k].amount \in Nat
      BY <1>5 DEF AdvanceTypes, Receipts
    <3>2. ClearedOf(s) \in [ReceiptKeys -> Nat]
      BY <3>1 DEF ClearedOf
    <3>3. PICK f \in [ReceiptKeys -> Nat] : f = ClearedOf(s)
      BY <3>2
    <3>4. \A k \in ReceiptKeys :
            ClearedOf(s)'[k] = IF k = r.receipt THEN n ELSE f[k]
      BY <1>3, <2>1, <2>5, <3>3
    <3>5. ClearedOf(s)' \in [ReceiptKeys -> Nat]
      BY <1>3, <3>4 DEF ClearedOf
    <3>6. PICK h \in [ReceiptKeys -> Nat] : h = ClearedOf(s)'
      BY <3>5
    <3>7. b.cleared = a.cleared - f[r.receipt] + h[r.receipt]
      BY <1>3, <1>4, <1>7, <2>2, <2>5, <3>3, <3>4, <3>6
    <3>8. \A k \in ReceiptKeys \ {r.receipt} : h[k] = f[k]
      BY <3>4, <3>6
    <3>9. IsTotal(ReceiptKeys, f, a.cleared)
      BY <2>4, <3>3
    <3>10. IsTotal(ReceiptKeys, h, b.cleared)
      BY <1>3, <1>4, <3>7, <3>8, <3>9, ReceiptKeysFinite, TotalUpdate
    <3>11. b.remaining = b.amount - b.cleared
      BY <1>3, <1>4, <1>7, <2>4, <2>5
    <3>12. ASSUME NEW x \in AdvanceIds, advance'[x] # NoAdvance
          PROVE  /\ IsTotal(ReceiptKeys, ClearedOf(x)', advance'[x].cleared)
                 /\ advance'[x].status # "Deleted" =>
                      advance'[x].remaining
                        = advance'[x].amount - advance'[x].cleared
      <4>1. CASE x = t
        BY <1>8, <3>6, <3>10, <3>11, <4>1
      <4>2. CASE x # t
        BY <1>8, <2>3, <3>12, <4>2 DEF AdvanceInv, ClearedOnce
      <4> QED
        BY <4>1, <4>2
    <3> QED
      BY <3>12 DEF ClearedOnce
  <2>6. CASE r.op = "advance_delete"
    <3>1. ASSUME NEW x \in AdvanceIds, advance'[x] # NoAdvance
          PROVE  /\ IsTotal(ReceiptKeys, ClearedOf(x)', advance'[x].cleared)
                 /\ advance'[x].status # "Deleted" =>
                      advance'[x].remaining
                        = advance'[x].amount - advance'[x].cleared
      <4>1. ClearedOf(x)' = ClearedOf(x)
        BY <2>3, <2>6
      <4>2. CASE x = t
        BY <1>3, <1>7, <1>8, <2>4, <2>6, <4>1, <4>2
      <4>3. CASE x # t
        BY <1>8, <3>1, <4>1, <4>3 DEF AdvanceInv, ClearedOnce
      <4> QED
        BY <4>2, <4>3
    <3> QED
      BY <3>1 DEF ClearedOnce
  <2> QED
    BY <1>1, <2>5, <2>6
<1> QED
  BY <1>10, <1>11, <1>12, <1>13 DEF AdvanceInv

\* A step that changes registers only.
LEMMA RegistersMove ==
  ASSUME IInv, IInv', AdvanceInv, UNCHANGED << gang, advanceVars, revision >>,
         cycle' \in [Projects -> Cycles], nextId' \in Nat, nextId' >= nextId,
         \A k \in Invocations : AdvanceRequest(req'[k]),
         \A p \in Projects : cycle'[p].id < nextId'
                              /\ (cycle'[p].id = 0 => cycle'[p] = NoCycle)
  PROVE  /\ TypeOK' /\ AdvanceItems' /\ AdvanceTotals' /\ ClearedOnce'
         /\ \A k \in Invocations : AdvanceRequest(req[k])'
<1>1. ItemTypes /\ ItemTypes' /\ AdvanceTypes /\ AdvanceItems
  BY AllTypes DEF IInv, AdvanceInv
<1>2. UNCHANGED << gang, advance, clearing, advanced, revision >>
  BY DEF advanceVars
<1>3. AdvanceTypes'
  BY <1>1, <1>2 DEF AdvanceTypes
<1>4. TypeOK'
  BY <1>1, <1>3 DEF TypeOK, ItemTypes, AdvanceTypes
<1>5. AdvanceItems'
  <2>1. nextId \in Nat
    BY <1>1 DEF AdvanceTypes
  <2>2. \A id \in AdvanceIds : advance[id] # NoAdvance =>
          \A c \in advance[id].excluded : c \in Nat /\ 0 < c /\ c < nextId'
    <3>1. \A id \in AdvanceIds : advance[id] # NoAdvance =>
            advance[id].excluded \subseteq Nat
      BY <1>1, Present DEF AdvanceTypes
    <3> QED
      BY <1>1, <2>1, <3>1 DEF AdvanceItems
  <2> QED
    BY <1>1, <1>2, <2>2 DEF AdvanceItems
<1>6. AdvanceTotals' /\ ClearedOnce'
  <2>1. \A p, w : LeftOf(p, w)' = LeftOf(p, w)
    BY <1>2 DEF LeftOf, AdvancesOf
  <2>2. \A x : ClearedOf(x)' = ClearedOf(x)
    BY <1>2 DEF ClearedOf
  <2> QED
    BY <1>2, <2>1, <2>2 DEF AdvanceInv, AdvanceTotals, ClearedOnce
<1>7. \A k \in Invocations : AdvanceRequest(req[k])'
  <2>1. revision' \in [Projects -> Nat]
    BY <1>1 DEF ItemTypes
  <2>2. \A id \in AdvanceIds : advance'[id] = advance[id]
    BY <1>2
  <2>3. \A p \in Projects : revision'[p] = revision[p] /\ advanced'[p] = advanced[p]
    BY <1>2
  <2> QED
    BY <1>1, <1>3, <2>1, <2>2, <2>3, AdvanceRequestsKept
<1> QED
  BY <1>4, <1>5, <1>6, <1>7

\* A register that is the same, or has the same id, workers and recoveries,
\* recovers the same.
LEMMA RecoveryKept ==
  ASSUME RecoveryCurrent, UNCHANGED advance, NEW p \in Projects,
         cycle[p] # NoCycle, cycle'[p].id = cycle[p].id,
         cycle'[p].members = cycle[p].members,
         cycle'[p].recovery = cycle[p].recovery
  PROVE  \A w \in cycle'[p].members :
           IsTotal(AdvanceIds, LeftFor(p, w)', cycle'[p].recovery[w])
<1>1. \A w : LeftFor(p, w)' = LeftFor(p, w)
  BY DEF LeftFor, AdvancesOf
<1> QED
  BY <1>1 DEF RecoveryCurrent

\* The new register recovers the totals of its month, which are what is left of
\* the advances: none of them can exclude an id that was not given before.
LEMMA CommitGenerateKeeps ==
  ASSUME IInv, IInv', AdvanceInv, NEW i \in Invocations, CommitGenerate(i)
  PROVE  AdvanceInv'
<1> DEFINE r == req[i]
           p == r.project
           c == [r.entry EXCEPT !.id = nextId, !.status = "Pending"]
<1>1. /\ r.op = "generate" /\ r.next = "commit" /\ revision[p] = r.revision
      /\ cycle' = [cycle EXCEPT ![p] = c] /\ nextId' = nextId + 1
      /\ Do(i, Idle) /\ UNCHANGED << gang, advanceVars, revision >>
  BY DEF CommitGenerate, Serves, SourcesUnchanged, rosterVars
<1>2. Recovering(r)
  BY <1>1 DEF AdvanceInv, AdvanceRequest
<1>3. AdvanceTypes /\ AdvanceItems
  BY AllTypes DEF AdvanceInv
<1>4. /\ p \in Projects /\ r.entry \in Cycles
      /\ \A w \in r.entry.members : r.entry.recovery[w] = advanced[p][w]
  BY <1>1, <1>2 DEF Recovering, Generations
<1>5. nextId \in Nat \ {0}
  BY <1>3 DEF AdvanceTypes
<1>6. /\ c \in Cycles /\ c.id = nextId /\ c.members = r.entry.members
      /\ c.recovery = r.entry.recovery /\ c.members \subseteq Workers
  BY <1>4, <1>5 DEF Cycles, Statuses
<1>. PICK q \in Projects : q = p
  BY <1>4
<1>. PICK n : n = c
  OBVIOUS
<1> HIDE DEF r, p, c
<1>7. /\ \A s \in Projects : cycle'[s] = IF s = q THEN n ELSE cycle[s]
      /\ cycle' \in [Projects -> Cycles]
  BY <1>1, <1>3, <1>6 DEF AdvanceTypes
<1>8. \A k \in Invocations : AdvanceRequest(req'[k])
  BY <1>1, IdleRequest, GoesOn
<1>9. \A s \in Projects : cycle'[s].id < nextId'
                           /\ (cycle'[s].id = 0 => cycle'[s] = NoCycle)
  <2>1. \A s \in Projects : cycle[s].id \in Nat
    BY <1>3 DEF AdvanceTypes, Cycles
  <2> QED
    BY <1>1, <1>3, <1>5, <1>6, <1>7, <2>1 DEF AdvanceItems
<1>10. nextId' \in Nat /\ nextId' >= nextId
  BY <1>1, <1>5
<1>11. /\ TypeOK' /\ AdvanceItems' /\ AdvanceTotals' /\ ClearedOnce'
       /\ \A k \in Invocations : AdvanceRequest(req[k])'
  BY <1>1, <1>7, <1>8, <1>9, <1>10, RegistersMove
<1>12. RecoveryCurrent'
  <2>1. UNCHANGED advance
    BY <1>1 DEF advanceVars
  <2>2. ASSUME NEW w \in n.members
        PROVE  IsTotal(AdvanceIds, LeftFor(q, w)', n.recovery[w])
    <3>1. \A id \in AdvanceIds : advance[id] # NoAdvance =>
            nextId \notin advance[id].excluded
      BY <1>3, <1>5 DEF AdvanceItems
    <3>2. cycle'[q].id = nextId
      BY <1>6, <1>7
    <3>3. AdvancesOf(q, w)' = AdvancesOf(q, w)
      BY <2>1 DEF AdvancesOf
    <3>4. \A id \in AdvanceIds : LeftFor(q, w)'[id] = LeftOf(q, w)[id]
      BY <2>1, <3>1, <3>2, <3>3 DEF LeftFor, LeftOf, AdvancesOf
    <3>5. LeftFor(q, w)' = LeftOf(q, w)
      BY <3>4 DEF LeftFor, LeftOf
    <3>6. IsTotal(AdvanceIds, LeftOf(q, w), advanced[q][w])
      BY <1>6, <2>2 DEF AdvanceInv, AdvanceTotals
    <3>7. n.recovery[w] = advanced[q][w]
      BY <1>4, <1>6, <2>2
    <3> QED
      BY <3>5, <3>6, <3>7
  <2>3. ASSUME NEW s \in Projects, cycle'[s] # NoCycle
        PROVE  \A w \in cycle'[s].members :
                 IsTotal(AdvanceIds, LeftFor(s, w)', cycle'[s].recovery[w])
    <3>1. CASE s = q
      BY <1>7, <2>2, <3>1
    <3>2. CASE s # q
      BY <1>7, <2>1, <2>3, <3>2, RecoveryKept DEF AdvanceInv
    <3> QED
      BY <3>1, <3>2
  <2> QED
    BY <2>3 DEF RecoveryCurrent
<1> QED
  BY <1>11, <1>12 DEF AdvanceInv

\* A register is settled or withdrawn.
LEMMA RegisterChanges ==
  ASSUME IInv, IInv', AdvanceInv, NEW p \in Projects, NEW c \in Cycles,
         cycle' = [cycle EXCEPT ![p] = c], cycle[p] # NoCycle,
         \/ c = NoCycle
         \/ /\ c.id = cycle[p].id /\ c.members = cycle[p].members
            /\ c.recovery = cycle[p].recovery,
         UNCHANGED << gang, advanceVars, revision, nextId, req >>
  PROVE  AdvanceInv'
<1>1. AdvanceTypes /\ AdvanceItems
  BY AllTypes DEF AdvanceInv
<1>2. /\ \A q \in Projects : cycle'[q] = IF q = p THEN c ELSE cycle[q]
      /\ cycle' \in [Projects -> Cycles]
  BY <1>1 DEF AdvanceTypes
<1>3. \A k \in Invocations : AdvanceRequest(req'[k])
  BY DEF AdvanceInv
<1>4. \A q \in Projects : cycle'[q].id < nextId'
                           /\ (cycle'[q].id = 0 => cycle'[q] = NoCycle)
  <2>1. NoCycle.id = 0 /\ nextId \in Nat \ {0}
    BY <1>1 DEF NoCycle, AdvanceTypes
  <2> QED
    BY <1>1, <1>2, <2>1 DEF AdvanceItems
<1>5. nextId' \in Nat /\ nextId' >= nextId
  BY <1>1 DEF AdvanceTypes
<1>6. /\ TypeOK' /\ AdvanceItems' /\ AdvanceTotals' /\ ClearedOnce'
      /\ \A k \in Invocations : AdvanceRequest(req[k])'
  BY <1>2, <1>3, <1>4, <1>5, RegistersMove
<1>7. UNCHANGED advance
  BY DEF advanceVars
<1>8. ASSUME NEW q \in Projects, cycle'[q] # NoCycle
      PROVE  \A w \in cycle'[q].members :
               IsTotal(AdvanceIds, LeftFor(q, w)', cycle'[q].recovery[w])
  <2>1. /\ cycle[q] # NoCycle /\ cycle'[q].id = cycle[q].id
        /\ cycle'[q].members = cycle[q].members
        /\ cycle'[q].recovery = cycle[q].recovery
    BY <1>2, <1>8
  <2> QED
    BY <1>7, <2>1, RecoveryKept DEF AdvanceInv
<1>9. RecoveryCurrent'
  BY <1>8 DEF RecoveryCurrent
<1> QED
  BY <1>6, <1>9 DEF AdvanceInv

LEMMA ReopenKeeps ==
  ASSUME IInv, IInv', AdvanceInv, NEW p \in Projects, Reopen(p) \/ Settle(p)
  PROVE  AdvanceInv'
<1>1. cycle[p].status = "Pending" /\ cycle[p] \in Cycles
      /\ UNCHANGED << gang, advanceVars, revision, nextId, req >>
  BY DEF Reopen, Settle, AdvanceInv, TypeOK, rosterVars
<1>2. cycle[p] # NoCycle
  BY <1>1 DEF NoCycle
<1>3. CASE Reopen(p)
  <2>1. cycle' = [cycle EXCEPT ![p] = NoCycle]
    BY <1>3 DEF Reopen
  <2> QED
    BY <1>1, <1>2, <2>1, Present, RegisterChanges
<1>4. CASE Settle(p)
  <2> DEFINE c == [cycle[p] EXCEPT !.status = "Paid"]
  <2>1. cycle' = [cycle EXCEPT ![p] = c]
    BY <1>4 DEF Settle
  <2>2. /\ c \in Cycles /\ c.id = cycle[p].id /\ c.members = cycle[p].members
        /\ c.recovery = cycle[p].recovery
    BY <1>1 DEF Cycles, Statuses
  <2>3. PICK n \in Cycles : n = c
    BY <2>2
  <2> QED
    BY <1>1, <1>2, <2>1, <2>2, <2>3, RegisterChanges
<1> QED
  BY <1>3, <1>4

-----------------------------------------------------------------------------
LEMMA InitAdvances == Init => AdvanceInv
<1> SUFFICES ASSUME Init PROVE AdvanceInv
  OBVIOUS
<1>1. /\ gang \in [from: SUBSET Days, version: Nat]
      /\ advance \in [AdvanceIds -> {NoAdvance} \cup Advances]
      /\ clearing \in [ReceiptKeys -> {NoClearing} \cup Receipts]
      /\ advanced \in [Projects -> [Workers -> Nat]]
      /\ cycle \in [Projects -> Cycles] /\ nextId \in Nat \ {0}
  BY Present DEF Init, NoGang, Nothing
<1>2. TypeOK
  BY <1>1, InitIInv, AllTypes DEF IInv, AdvanceTypes
<1>3. AdvanceItems
  BY DEF Init, AdvanceItems, NoCycle
<1>4. AdvanceTotals
  <2>1. ASSUME NEW p \in Projects, NEW w \in Workers
        PROVE  IsTotal(AdvanceIds, LeftOf(p, w), advanced[p][w])
    <3>1. \A id \in AdvanceIds : LeftOf(p, w)[id] = 0
      BY DEF Init, LeftOf, AdvancesOf
    <3>2. advanced[p][w] = 0
      BY DEF Init, Nothing
    <3> QED
      BY <3>1, <3>2, WorkersAssumption, TotalZero
  <2> QED
    BY <2>1 DEF AdvanceTotals
<1>5. RecoveryCurrent /\ ClearedOnce
  BY DEF Init, RecoveryCurrent, ClearedOnce
<1>6. \A i \in Invocations : AdvanceRequest(req[i])
  BY IdleRequest DEF Init
<1> QED
  BY <1>2, <1>3, <1>4, <1>5, <1>6 DEF AdvanceInv

LEMMA NextAdvances == IInv /\ IInv' /\ AdvanceInv /\ [Next]_vars => AdvanceInv'
<1> SUFFICES ASSUME IInv, IInv', AdvanceInv, [Next]_vars PROVE AdvanceInv'
  OBVIOUS
<1>1. gang \in [from: SUBSET Days, version: Nat]
      /\ \A p \in Projects : revision[p] \in Nat
  BY DEF AdvanceInv, TypeOK
<1>2. CASE Registration \/ UNCHANGED vars
  <2>1. UNCHANGED << gang, advance, clearing, advanced, cycle, nextId, req >>
    BY <1>2 DEF Registration, Register, RegisterAllocate, vars, advanceVars,
                payrollVars
  <2>2. UNCHANGED revision \/ \E p : Touch(p)
    BY <1>2 DEF Registration, Register, RegisterAllocate, vars
  <2>3. \A p \in Projects : revision'[p] >= revision[p]
    BY <1>1, <2>2, TouchKeeps DEF IInv
  <2>4. \A k \in Invocations : AdvanceRequest(req'[k])
    BY <2>1 DEF AdvanceInv
  <2> QED
    BY <1>1, <2>1, <2>3, <2>4, QuietStep
<1>3. ASSUME NEW i \in Invocations, Starts(i) PROVE AdvanceInv'
  <2>1. ASSUME NEW w \in Workers, NEW d \in Days, NEW p \in Projects,
               StartAllocate(i, w, d, p)
        PROVE  AdvanceInv'
    <3> DEFINE r == [op |-> "allocate", worker |-> w, day |-> d, project |-> p,
                     version |-> allocation[w][d].version]
    <3>1. Do(i, r) /\ r.op = "allocate"
          /\ UNCHANGED << gang, advance, clearing, advanced, revision, cycle, nextId >>
      BY <2>1 DEF StartAllocate, Begin, rosterVars, advanceVars, payrollVars
    <3> HIDE DEF r
    <3> QED
      BY <1>1, <3>1, OtherAdvanceStep
  <2>2. ASSUME NEW w \in Workers, NEW d \in Days, NEW p \in Projects,
               NEW n \in 0..MaxWage, NEW paid \in BOOLEAN,
               StartAttendance(i, w, d, p, n, paid)
        PROVE  AdvanceInv'
    <3> DEFINE r == [op |-> "attendance", worker |-> w, day |-> d, project |-> p,
                     after |-> [wage |-> n, paid |-> paid,
                                version |-> daily[p][w][d].version + 1]]
    <3>1. Do(i, r) /\ r.op = "attendance"
          /\ UNCHANGED << gang, advance, clearing, advanced, revision, cycle, nextId >>
      BY <2>2 DEF StartAttendance, Begin, rosterVars, advanceVars, payrollVars
    <3> HIDE DEF r
    <3> QED
      BY <1>1, <3>1, OtherAdvanceStep
  <2>3. ASSUME NEW id \in DebitIds, NEW w \in Workers, NEW d \in Days,
               NEW p \in Projects, NEW n \in 1..MaxAmount,
               StartDebit(i, id, w, d, p, n)
        PROVE  AdvanceInv'
    <3> DEFINE r == [op |-> "debit", id |-> id,
                     item |-> [worker |-> w, project |-> p, amount |-> n]]
    <3>1. Do(i, r) /\ r.op = "debit"
          /\ UNCHANGED << gang, advance, clearing, advanced, revision, cycle, nextId >>
      BY <2>3 DEF StartDebit, Begin, rosterVars, advanceVars, payrollVars
    <3> HIDE DEF r
    <3> QED
      BY <1>1, <3>1, OtherAdvanceStep
  <2> QED
    BY <1>3, <2>1, <2>2, <2>3, StartConfigureKeeps, StartAdvanceKeeps,
       StartClearingKeeps, StartGenerateKeeps DEF Starts
<1>4. ASSUME NEW i \in Invocations, Commits(i) \/ Abandon(i) PROVE AdvanceInv'
  <2>1. CASE CommitConfigure(i)
    <3>1. req[i].start \in Days
      BY <2>1 DEF CommitConfigure, Serves, AdvanceInv, AdvanceRequest
    <3>2. gang' = [from |-> {req[i].start}, version |-> gang.version + 1]
          /\ Do(i, Idle)
          /\ UNCHANGED << advance, clearing, advanced, revision, cycle, nextId >>
      BY <2>1 DEF CommitConfigure, advanceVars, payrollVars
    <3>3. gang' \in [from: SUBSET Days, version: Nat]
      BY <1>1, <3>1, <3>2
    <3>4. Idle.op = "idle"
      BY DEF Idle
    <3> QED
      BY <3>2, <3>3, <3>4, OtherAdvanceStep
  <2>2. CASE \/ CommitAllocate(i) \/ CommitAttendance(i) \/ CommitDebit(i)
             \/ Abandon(i)
    <3>1. Do(i, Idle) /\ UNCHANGED << gang, advance, clearing, advanced, cycle, nextId >>
      BY <2>2 DEF CommitAllocate, CommitAttendance, CommitDebit, Abandon,
                  rosterVars, advanceVars, payrollVars
    <3>2. UNCHANGED revision \/ \E p : Touch(p)
      BY <2>2 DEF CommitAllocate, CommitAttendance, CommitDebit, Abandon
    <3>3. Idle.op = "idle"
      BY DEF Idle
    <3> QED
      BY <1>1, <3>1, <3>2, <3>3, OtherAdvanceStep
  <2> QED
    BY <1>4, <2>1, <2>2, CommitAdvanceKeeps, CommitClearingKeeps, ReadRosterKeeps,
       ReadMonthKeeps, ReadAdvancesKeeps, CommitGenerateKeeps DEF Commits
<1> QED
  BY <1>2, <1>3, <1>4, ReopenKeeps DEF Next

\* The inductive invariant holds in every reachable state.
THEOREM InvariantHolds == Spec => []IInv
BY InitIInv, NextIInv, PTL DEF Spec

\* Attendance locks the allocation of its date: no worker is paid for one date
\* by two projects, however allocations and attendance interleave.
THEOREM OneProjectPays == Spec => []OneProjectPerDate
<1>1. IInv => OneProjectPerDate
  BY DEF IInv, AttendanceLocks, OneProjectPerDate
<1> QED
  BY <1>1, InvariantHolds, PTL

\* While a register exists, its workers include everyone with attendance and its
\* wages, cash paid and deductions are those of the stored records.
THEOREM EntriesStayCurrent == Spec => []EntriesCurrent
<1>1. IInv => EntriesCurrent
  BY DEF IInv
<1> QED
  BY <1>1, InvariantHolds, PTL

\* The records of advances and their registers keep their invariant too.
THEOREM AdvancesHold == Spec => []AdvanceInv
BY InvariantHolds, InitAdvances, NextAdvances, PTL DEF Spec

\* Every item has its type in every reachable state: no total of advances is
\* ever negative, however many clearings and deletions are sent.
THEOREM TypeCorrect == Spec => []TypeOK
<1>1. AdvanceInv => TypeOK
  BY DEF AdvanceInv
<1> QED
  BY <1>1, AdvancesHold, PTL

\* A worker's monthly total, kept by adding deltas, is the sum of what is left of
\* his advances.
THEOREM AdvancesAddUp == Spec => []AdvanceTotals
<1>1. AdvanceInv => AdvanceTotals
  BY DEF AdvanceInv
<1> QED
  BY <1>1, AdvancesHold, PTL

\* While a register exists it recovers what is left of the advances it does not
\* exclude: no advance is given, cleared or deleted into it or out of it.
THEOREM RecoveriesStayCurrent == Spec => []RecoveryCurrent
<1>1. AdvanceInv => RecoveryCurrent
  BY DEF AdvanceInv
<1> QED
  BY <1>1, AdvancesHold, PTL

\* Every clearing counts once: an advance is what was given less what its
\* receipts cleared, whatever raced or was repeated.
THEOREM ClearingsCountOnce == Spec => []ClearedOnce
<1>1. AdvanceInv => ClearedOnce
  BY DEF AdvanceInv
<1> QED
  BY <1>1, AdvancesHold, PTL
=============================================================================
