----------------------------- MODULE WorkerPayroll -----------------------------
(***************************************************************************)
(* Named workers: dated allocations, attendance, deductions, recoverable   *)
(* advances and the monthly register that pays them, and the switch of     *)
(* their gang to headcount attendance.                                     *)
(*                                                                         *)
(* As in GangPayroll an API request reads consistently, one read after the *)
(* other, and then issues one conditional transaction.  req[i] holds what  *)
(* invocation i has read; a commit's guard is the condition of its         *)
(* transaction and never what an earlier read promised.                    *)
(*                                                                         *)
(* One month and one gang are modelled.  Registers of named workers and of *)
(* headcount gangs are parts of one item; the gangs' part is GangPayroll.  *)
(***************************************************************************)
EXTENDS Totals

CONSTANTS
  Workers,      \* worker profiles the organization may register
  Members,      \* those of them that belong to the gang
  Projects,
  LastDay,      \* dates of the month are 1..LastDay
  DebitIds, AdvanceIds, ActionIds,  \* request identifiers a client may send,
                \* and send again, for a deduction, an advance or a clearing
  Invocations,
  MaxWage,      \* bound: wage of one day
  MaxAmount,    \* bound: a deduction, an advance or an amount to clear
  MaxVersion,   \* bound: writes of an allocation, a day, an advance, the gang
  MaxCycle      \* bound: registers generated

ASSUME WorkersAssumption ==
  /\ Members \subseteq Workers
  /\ IsFiniteSet(Projects) /\ IsFiniteSet(DebitIds)
  /\ IsFiniteSet(AdvanceIds) /\ IsFiniteSet(ActionIds)
  /\ LastDay \in Nat \ {0}

VARIABLES
  worker,      \* WORKER#worker
  gang,        \* GANG#gang: headcountFrom and version
  allocation,  \* ALLOCATION#worker#day
  daily,       \* DAILY#day#worker of each project
  debit,       \* DEBIT#..., by its request id
  advance,     \* WORKER-ADVANCE#..., by its request id
  clearing,    \* WORKER-ADVANCE-ACTION#... of each project, by request id
  advanced,    \* WORKER-ADVANCE-MONTH#worker#month of each project: amount
  revision,    \* MONTH#month of each project: revision
  cycle,       \* PAYROLL#month of each project
  nextId,      \* source of fresh cycleIds
  req          \* the request each invocation serves and what it has read

vars == << worker, gang, allocation, daily, debit, advance, clearing, advanced,
           revision, cycle, nextId, req >>
advanceVars == << advance, clearing, advanced >>
rosterVars == << worker, gang, allocation >>
payrollVars == << cycle, nextId >>

-----------------------------------------------------------------------------
Days == 1..LastDay

\* Transact puts REQUEST#kind#id, on attribute_not_exists, with every new record
\* that carries a request id: no two deductions of the organization, and no two
\* advances, share one.  Receipts of clearings are a project's own.
ReceiptKeys == [project: Projects, id: ActionIds]

NoWorker == [known |-> FALSE, project |-> {}]  \* {}: no project was given
NoGang == [from |-> {}, version |-> 0]
NoAllocation == [project |-> {}, started |-> FALSE, version |-> 0]
NoDaily == [wage |-> 0, paid |-> FALSE, version |-> 0]
NoDebit == [amount |-> 0]
NoAdvance == [amount |-> 0]
NoClearing == [amount |-> 0]
Nothing == [w \in Workers |-> 0]
NoCycle == [id |-> 0, status |-> "None", members |-> {}, gross |-> Nothing,
            paid |-> Nothing, debits |-> Nothing, recovery |-> Nothing]
Idle == [op |-> "idle"]

\* active_on: the gang records headcounts from its start date
HeadcountOn(d) == \E s \in gang.from : s <= d

\* 'This gang uses headcounts': read when a request on a worker begins
NamedOn(w, d) == w \in Members => ~HeadcountOn(d)

Do(i, r) == req' = [req EXCEPT ![i] = r]
Begin(i, r) == req[i] = Idle /\ Do(i, r)
Serves(i, op) == req[i].op = op

\* ADD revision :one on the month of the project
Touch(p) == revision' = [revision EXCEPT ![p] = @ + 1]

UnlockedSlip(p) == TRUE

\* attribute_not_exists on the register of the project and month
Unlocked(p) == cycle[p] = NoCycle

-----------------------------------------------------------------------------
(* register, register_allocate.  Their reads are all repeated as conditions *)
(* of the transaction, so reading and writing is one step.                  *)

Register(w, P) ==
  /\ worker[w] = NoWorker
  /\ worker' = [worker EXCEPT ![w] = [known |-> TRUE, project |-> P]]
  /\ UNCHANGED << gang, allocation, daily, debit, advanceVars, revision,
                  payrollVars, req >>

RegisterAllocate(w, p, d) ==
  /\ worker[w] = NoWorker /\ Unlocked(p)
  /\ worker' = [worker EXCEPT ![w] = [known |-> TRUE, project |-> {p}]]
  /\ allocation' = [allocation EXCEPT ![w][d] =
                      [project |-> {p}, started |-> FALSE, version |-> 1]]
  /\ Touch(p)
  /\ UNCHANGED << gang, daily, debit, advanceVars, payrollVars, req >>

-----------------------------------------------------------------------------
(* gang_configure.                                                          *)

\* Named-worker attendance of the gang's members, in every project
MemberDays == {d \in Days : \E w \in Members, p \in Projects :
                              daily[p][w][d].version > 0}

StartConfigure(i, s) ==
  /\ gang.version < MaxVersion
  /\ gang.from # {} => gang.from = {s}
  /\ gang.from = {} => \A d \in MemberDays : d < s
  /\ Begin(i, [op |-> "gang_configure", start |-> s, version |-> gang.version])
  /\ UNCHANGED << rosterVars, daily, debit, advanceVars, revision, payrollVars >>

CommitConfigure(i) ==
  /\ Serves(i, "gang_configure")
  /\ gang.version = req[i].version
  /\ gang' = [from |-> {req[i].start}, version |-> gang.version + 1]
  /\ Do(i, Idle)
  /\ UNCHANGED << worker, allocation, daily, debit, advanceVars, revision,
                  payrollVars >>

-----------------------------------------------------------------------------
(* allocate.                                                                *)

StartAllocate(i, w, d, p) ==
  /\ worker[w].known /\ NamedOn(w, d)
  /\ ~allocation[w][d].started /\ allocation[w][d].version < MaxVersion
  /\ Begin(i, [op |-> "allocate", worker |-> w, day |-> d, project |-> p,
               version |-> allocation[w][d].version])
  /\ UNCHANGED << rosterVars, daily, debit, advanceVars, revision, payrollVars >>

AllocatableSlip(a, v) == a.version = v

\* attribute_not_exists(attendanceStarted) and the version that was read
Allocatable(a, v) == ~a.started /\ a.version = v

CommitAllocate(i) ==
  /\ Serves(i, "allocate")
  /\ LET r == req[i]
     IN  /\ Allocatable(allocation[r.worker][r.day], r.version)
         /\ allocation' = [allocation EXCEPT ![r.worker][r.day] =
              [project |-> {r.project}, started |-> FALSE,
               version |-> r.version + 1]]
  /\ Do(i, Idle)
  /\ UNCHANGED << worker, gang, daily, debit, advanceVars, revision, payrollVars >>

-----------------------------------------------------------------------------
(* attendance: the first entry of a date or a correction.                   *)

StartAttendance(i, w, d, p, wage, paid) ==
  LET before == daily[p][w][d]
  IN  /\ worker[w].known /\ NamedOn(w, d) /\ Unlocked(p)
      /\ p \in allocation[w][d].project
      /\ paid => wage > 0
      /\ before.version < MaxVersion
      /\ before.version > 0 => before.wage # wage \/ before.paid # paid
      /\ Begin(i, [op |-> "attendance", worker |-> w, day |-> d, project |-> p,
                   after |-> [wage |-> wage, paid |-> paid,
                              version |-> before.version + 1]])
  /\ UNCHANGED << rosterVars, daily, debit, advanceVars, revision, payrollVars >>

CommitAttendance(i) ==
  /\ Serves(i, "attendance")
  /\ LET r == req[i]
         w == r.worker
         p == r.project
     IN  /\ p \in allocation[w][r.day].project
         /\ Unlocked(p)
         /\ daily[p][w][r.day].version = r.after.version - 1
         /\ allocation' = [allocation EXCEPT ![w][r.day].started = TRUE]
         /\ daily' = [daily EXCEPT ![p][w][r.day] = r.after]
         /\ Touch(p)
  /\ Do(i, Idle)
  /\ UNCHANGED << worker, gang, debit, advanceVars, payrollVars >>

-----------------------------------------------------------------------------
(* debit.                                                                   *)

StartDebit(i, id, w, d, p, n) ==
  /\ worker[w].known /\ NamedOn(w, d) /\ Unlocked(p)
  /\ debit[id] = NoDebit
  /\ Begin(i, [op |-> "debit", id |-> id,
               item |-> [worker |-> w, project |-> p, amount |-> n]])
  /\ UNCHANGED << rosterVars, daily, debit, advanceVars, revision, payrollVars >>

CommitDebit(i) ==
  /\ Serves(i, "debit")
  /\ LET r == req[i]
     IN  /\ Unlocked(r.item.project) /\ debit[r.id] = NoDebit
         /\ debit' = [debit EXCEPT ![r.id] = r.item]
         /\ Touch(r.item.project)
  /\ Do(i, Idle)
  /\ UNCHANGED << rosterVars, daily, advanceVars, payrollVars >>

-----------------------------------------------------------------------------
(* advance, advance_clear, advance_delete.                                  *)

ExcludedFromSlip(c) == {}

\* An advance given while a register exists is excluded from that register
ExcludedFrom(c) == IF c = NoCycle THEN {} ELSE {c.id}

StartAdvance(i, id, w, d, p, n) ==
  /\ worker[w].known /\ NamedOn(w, d)
  /\ advance[id] = NoAdvance
  /\ Begin(i, [op |-> "advance", id |-> id, cycle |-> cycle[p].id,
               item |-> [worker |-> w, project |-> p, day |-> d, amount |-> n,
                         remaining |-> n, cleared |-> 0, status |-> "Active",
                         excluded |-> ExcludedFrom(cycle[p]), version |-> 0]])
  /\ UNCHANGED << rosterVars, daily, debit, advanceVars, revision, payrollVars >>

\* The register must be the one that was read, or still absent
CommitAdvance(i) ==
  /\ Serves(i, "advance")
  /\ LET r == req[i]
         p == r.item.project
     IN  /\ cycle[p].id = r.cycle /\ advance[r.id] = NoAdvance
         /\ advance' = [advance EXCEPT ![r.id] = r.item]
         /\ advanced' = [advanced EXCEPT ![p][r.item.worker] = @ + r.item.amount]
         /\ Touch(p)
  /\ Do(i, Idle)
  /\ UNCHANGED << rosterVars, daily, debit, clearing, payrollVars >>

\* What is left of an advance after n of it was cleared, or after its deletion
Cleared(a, n) ==
  [a EXCEPT !.remaining = @ - n, !.cleared = @ + n, !.version = @ + 1,
            !.status = IF a.remaining = n THEN "Cleared" ELSE "Active"]
Deleted(a) == [a EXCEPT !.remaining = 0, !.version = @ + 1,
                        !.status = "Deleted"]

\* The receipt of the action's request id answers a repetition.  Deleting an
\* advance reduces it by what remains.
StartClearing(i, op, id, target, n) ==
  LET a == advance[target]
      receipt == [project |-> a.project, id |-> id]
  IN  /\ a # NoAdvance
      /\ clearing[receipt] = NoClearing
      /\ NamedOn(a.worker, a.day) /\ Unlocked(a.project)
      /\ a.status = "Active" /\ a.version < MaxVersion
      /\ op = "advance_clear" => n <= a.remaining
      /\ op = "advance_delete" => n = a.remaining
      /\ Begin(i, [op |-> op, receipt |-> receipt, target |-> target,
                   amount |-> n, before |-> a])
  /\ UNCHANGED << rosterVars, daily, debit, advanceVars, revision, payrollVars >>

UnchangedSinceSlip(a, b) == TRUE

\* The advance has the version it was read with
UnchangedSince(a, b) == a.version = b.version

CommitClearing(i) ==
  /\ req[i].op \in {"advance_clear", "advance_delete"}
  /\ LET r == req[i]
         a == r.before
     IN  /\ Unlocked(a.project)
         /\ UnchangedSince(advance[r.target], a)
         /\ clearing[r.receipt] = NoClearing
         /\ advance' = [advance EXCEPT ![r.target] =
                          IF r.op = "advance_clear" THEN Cleared(a, r.amount)
                                                    ELSE Deleted(a)]
         /\ clearing' = [clearing EXCEPT ![r.receipt] =
                           [op |-> r.op, target |-> r.target,
                            amount |-> r.amount]]
         /\ advanced' = [advanced EXCEPT ![a.project][a.worker] = @ - r.amount]
         /\ Touch(a.project)
  /\ Do(i, Idle)
  /\ UNCHANGED << rosterVars, daily, debit, payrollVars >>

-----------------------------------------------------------------------------
(* POST payroll: the entries of named workers.                              *)

GrossOf(p, w) == Sum(Days, [d \in Days |-> daily[p][w][d].wage])
PaidOf(p, w) == Sum({d \in Days : daily[p][w][d].paid},
                    [d \in Days |-> daily[p][w][d].wage])
DebitsOf(p, w) ==
  LET D == {id \in DebitIds : debit[id] # NoDebit /\ debit[id].worker = w
                              /\ debit[id].project = p}
  IN  Sum(D, [id \in D |-> debit[id].amount])

\* The project of a worker's latest allocation up to the first of the month,
\* the profile's project without one
AtStart(w) == IF allocation[w][1].version > 0 THEN allocation[w][1].project
                                              ELSE worker[w].project

StartGenerate(i, p) ==
  /\ Unlocked(p) /\ nextId <= MaxCycle
  /\ Begin(i, [op |-> "generate", next |-> "roster", project |-> p,
               revision |-> revision[p], known |-> {}, entry |-> NoCycle])
  /\ UNCHANGED << rosterVars, daily, debit, advanceVars, revision, payrollVars >>

\* labour_list reads the workers and their allocations first, ...
ReadRoster(i) ==
  /\ Serves(i, "generate") /\ req[i].next = "roster"
  /\ LET p == req[i].project
         known == {w \in Workers : worker[w].known}
     IN  Do(i, [req[i] EXCEPT !.next = "month", !.known = known,
                  !.entry.members = {w \in known : p \in AtStart(w)}])
  /\ UNCHANGED << rosterVars, daily, debit, advanceVars, revision, payrollVars >>

\* ... then the month's attendance and deductions.  A worker it read is listed
\* with attendance wherever the first of the month found him.
ReadMonth(i) ==
  /\ Serves(i, "generate") /\ req[i].next = "month"
  /\ LET p == req[i].project
         listed == req[i].entry.members \cup
           {w \in req[i].known : \E d \in Days : daily[p][w][d].version > 0}
     IN  Do(i, [req[i] EXCEPT !.next = "advances", !.known = {},
                  !.entry.members = listed,
                  !.entry.gross = [w \in Workers |-> GrossOf(p, w)],
                  !.entry.paid = [w \in Workers |-> PaidOf(p, w)],
                  !.entry.debits = [w \in Workers |-> DebitsOf(p, w)]])
  /\ UNCHANGED << rosterVars, daily, debit, advanceVars, revision, payrollVars >>

ReadAdvances(i) ==
  /\ Serves(i, "generate") /\ req[i].next = "advances"
  /\ LET r == req[i]
     IN  Do(i, [r EXCEPT !.next = "commit", !.entry.recovery =
                  [w \in Workers |-> IF w \in r.entry.members
                                     THEN advanced[r.project][w] ELSE 0]])
  /\ UNCHANGED << rosterVars, daily, debit, advanceVars, revision, payrollVars >>

SourcesUnchangedSlip(r) == TRUE

\* The month's revision, read before any source, is still the same
SourcesUnchanged(r) == revision[r.project] = r.revision

Net(c, w) == c.gross[w] - c.debits[w] - c.recovery[w] - c.paid[w]

\* 'Deductions exceed wages' refuses a register with a negative entry; one
\* without workers, gangs and salaries (neither modelled here) is refused too.
CommitGenerate(i) ==
  /\ Serves(i, "generate") /\ req[i].next = "commit"
  /\ LET r == req[i]
         c == r.entry
     IN  /\ c.members # {} /\ \A w \in c.members : Net(c, w) >= 0
         /\ Unlocked(r.project) /\ SourcesUnchanged(r)
         /\ cycle' = [cycle EXCEPT ![r.project] =
                        [c EXCEPT !.id = nextId, !.status = "Pending"]]
         /\ nextId' = nextId + 1
  /\ Do(i, Idle)
  /\ UNCHANGED << rosterVars, daily, debit, advanceVars, revision >>

\* DELETE payroll and payroll/disburse, whose conditions name the header they
\* read; GangPayroll models them in full.
Reopen(p) ==
  /\ cycle[p].status = "Pending"
  /\ cycle' = [cycle EXCEPT ![p] = NoCycle]
  /\ UNCHANGED << rosterVars, daily, debit, advanceVars, revision, nextId, req >>

Settle(p) ==
  /\ cycle[p].status = "Pending"
  /\ cycle' = [cycle EXCEPT ![p].status = "Paid"]
  /\ UNCHANGED << rosterVars, daily, debit, advanceVars, revision, nextId, req >>

-----------------------------------------------------------------------------
\* ValueError, 409 on a failed condition, crash or timeout before the write
Abandon(i) ==
  /\ req[i] # Idle
  /\ Do(i, Idle)
  /\ UNCHANGED << rosterVars, daily, debit, advanceVars, revision, payrollVars >>

Init ==
  /\ worker = [w \in Workers |-> NoWorker]
  /\ gang = NoGang
  /\ allocation = [w \in Workers |-> [d \in Days |-> NoAllocation]]
  /\ daily = [p \in Projects |-> [w \in Workers |-> [d \in Days |-> NoDaily]]]
  /\ debit = [id \in DebitIds |-> NoDebit]
  /\ advance = [id \in AdvanceIds |-> NoAdvance]
  /\ clearing = [k \in ReceiptKeys |-> NoClearing]
  /\ advanced = [p \in Projects |-> Nothing]
  /\ revision = [p \in Projects |-> 0]
  /\ cycle = [p \in Projects |-> NoCycle]
  /\ nextId = 1
  /\ req = [i \in Invocations |-> Idle]

Registration ==
  \/ \E w \in Workers, P \in {{}} \cup {{p} : p \in Projects} : Register(w, P)
  \/ \E w \in Workers, p \in Projects, d \in Days : RegisterAllocate(w, p, d)

Starts(i) ==
  \/ \E s \in Days : StartConfigure(i, s)
  \/ \E w \in Workers, d \in Days, p \in Projects : StartAllocate(i, w, d, p)
  \/ \E w \in Workers, d \in Days, p \in Projects, n \in 0..MaxWage,
        paid \in BOOLEAN : StartAttendance(i, w, d, p, n, paid)
  \/ \E id \in DebitIds, w \in Workers, d \in Days, p \in Projects,
        n \in 1..MaxAmount : StartDebit(i, id, w, d, p, n)
  \/ \E id \in AdvanceIds, w \in Workers, d \in Days, p \in Projects,
        n \in 1..MaxAmount : StartAdvance(i, id, w, d, p, n)
  \/ \E op \in {"advance_clear", "advance_delete"}, id \in ActionIds,
        target \in AdvanceIds, n \in 1..MaxAmount :
        StartClearing(i, op, id, target, n)
  \/ \E p \in Projects : StartGenerate(i, p)

Commits(i) ==
  \/ CommitConfigure(i)
  \/ CommitAllocate(i)
  \/ CommitAttendance(i)
  \/ CommitDebit(i)
  \/ CommitAdvance(i)
  \/ CommitClearing(i)
  \/ ReadRoster(i) \/ ReadMonth(i) \/ ReadAdvances(i)
  \/ CommitGenerate(i)

Next ==
  \/ Registration
  \/ \E i \in Invocations : Starts(i) \/ Commits(i) \/ Abandon(i)
  \/ \E p \in Projects : Reopen(p) \/ Settle(p)

Spec == Init /\ [][Next]_vars
-----------------------------------------------------------------------------
(* Properties.                                                             *)

\* Items and requests have their types.
Statuses == {"None", "Pending", "Paid"}
Cycles == [id: Nat, status: Statuses, members: SUBSET Workers,
           gross: [Workers -> Int], paid: [Workers -> Int],
           debits: [Workers -> Int], recovery: [Workers -> Int]]
Debits == [worker: Workers, project: Projects, amount: Nat]
Advances == [worker: Workers, project: Projects, day: Days, amount: Nat,
             remaining: Nat, cleared: Nat, version: Nat, excluded: SUBSET Nat,
             status: {"Active", "Cleared", "Deleted"}]
Receipts == [op: {"advance_clear", "advance_delete"}, target: AdvanceIds,
             amount: Nat]
TypeOK ==
  /\ worker \in [Workers -> [known: BOOLEAN, project: SUBSET Projects]]
  /\ gang \in [from: SUBSET Days, version: Nat]
  /\ allocation \in [Workers -> [Days -> [project: SUBSET Projects,
                                          started: BOOLEAN, version: Nat]]]
  /\ daily \in [Projects -> [Workers -> [Days ->
                  [wage: Nat, paid: BOOLEAN, version: Nat]]]]
  /\ debit \in [DebitIds -> {NoDebit} \cup Debits]
  /\ advance \in [AdvanceIds -> {NoAdvance} \cup Advances]
  /\ clearing \in [ReceiptKeys -> {NoClearing} \cup Receipts]
  /\ advanced \in [Projects -> [Workers -> Nat]]
  /\ revision \in [Projects -> Nat]
  /\ cycle \in [Projects -> Cycles]
  /\ nextId \in Nat \ {0}

\* Attendance locks the allocation of its date: a worker is never paid for one
\* date by two projects, however allocations and attendance race.
OneProjectPerDate ==
  \A w \in Workers, d \in Days, p, q \in Projects :
    daily[p][w][d].version > 0 /\ daily[q][w][d].version > 0 => p = q

\* A register's entries, made or being made, equal the current records
Attended(p) == {w \in Workers : \E d \in Days : daily[p][w][d].version > 0}
Current(c, p) ==
  /\ Attended(p) \subseteq c.members
  /\ \A w \in c.members : /\ c.gross[w] = GrossOf(p, w)
                          /\ c.paid[w] = PaidOf(p, w)
                          /\ c.debits[w] = DebitsOf(p, w)

\* "Attendance and deductions are locked after the payroll cycle is generated":
\* while a register exists its entries are the current month's wages, cash
\* paid and deductions, though they were read in several steps before.
EntriesCurrent ==
  \A p \in Projects : cycle[p] # NoCycle => Current(cycle[p], p)

\* The advances of a worker at a project, and what is left of those a register
\* does not exclude.
AdvancesOf(p, w) == {id \in AdvanceIds :
  advance[id] # NoAdvance /\ advance[id].project = p /\ advance[id].worker = w}
LeftOf(p, w) == [id \in AdvanceIds |->
  IF id \in AdvancesOf(p, w) THEN advance[id].remaining ELSE 0]
LeftFor(p, w) == [id \in AdvanceIds |->
  IF id \in AdvancesOf(p, w) /\ cycle[p].id \notin advance[id].excluded
  THEN advance[id].remaining ELSE 0]

\* The worker's monthly total of advances, kept by adding deltas, is the sum of
\* what is left of the advances through every clearing and deletion.
AdvanceTotals ==
  \A p \in Projects, w \in Workers :
    IsTotal(AdvanceIds, LeftOf(p, w), advanced[p][w])

\* A register recovers from each of its workers exactly what is left of the
\* advances it does not exclude: "new advances are excluded from this immutable
\* payroll snapshot", and none of the others changes while it exists.
RecoveryCurrent ==
  \A p \in Projects : cycle[p] # NoCycle =>
    \A w \in cycle[p].members :
      IsTotal(AdvanceIds, LeftFor(p, w), cycle[p].recovery[w])

\* What the receipts of an advance cleared of it
ClearedOf(target) == [c \in ReceiptKeys |->
  IF clearing[c] # NoClearing /\ clearing[c].target = target
     /\ clearing[c].op = "advance_clear"
  THEN clearing[c].amount ELSE 0]

\* A clearing posts once however often its request id is sent, and no clearing
\* or deletion that raced it is lost: an advance is what was given less what
\* its receipts cleared.
ClearedOnce ==
  \A target \in AdvanceIds : advance[target] # NoAdvance =>
    LET a == advance[target]
    IN  /\ IsTotal(ReceiptKeys, ClearedOf(target), a.cleared)
        /\ a.status # "Deleted" => a.remaining = a.amount - a.cleared

\* "The start date must follow any existing named-worker attendance".
HeadcountFollowsAttendance ==
  \A d \in MemberDays, s \in gang.from : d < s
-----------------------------------------------------------------------------
(* The inductive invariant of OneProjectPerDate and EntriesCurrent.        *)

\* Items that the two properties speak of have their types; a register and the
\* register that is being made have the same fields.
ItemTypes ==
  /\ worker \in [Workers -> [known: BOOLEAN, project: SUBSET Projects]]
  /\ allocation \in [Workers -> [Days -> [project: SUBSET Projects,
                                          started: BOOLEAN, version: Nat]]]
  /\ daily \in [Projects -> [Workers -> [Days ->
                  [wage: Nat, paid: BOOLEAN, version: Nat]]]]
  /\ debit \in [DebitIds -> {NoDebit} \cup Debits]
  /\ revision \in [Projects -> Nat]
  /\ DOMAIN cycle = Projects
  /\ \A p \in Projects : /\ DOMAIN cycle[p] = DOMAIN NoCycle
                           /\ cycle[p].members \subseteq Workers

\* Attendance is of a registered worker, and locks his allocation to the project
AttendanceLocks ==
  /\ \A w \in Workers, d \in Days :
       \A p, q \in allocation[w][d].project : p = q
  /\ \A w \in Workers, d \in Days, p \in Projects :
       daily[p][w][d].version > 0 =>
         /\ worker[w].known /\ allocation[w][d].started
         /\ p \in allocation[w][d].project

\* What a register's invocation has read stays true while the month has the
\* revision that it read first.
Generating(r) ==
  /\ DOMAIN r = {"op", "next", "project", "revision", "known", "entry"}
  /\ DOMAIN r.entry = DOMAIN NoCycle
  /\ r.project \in Projects /\ r.revision \in Nat
  /\ r.entry.members \subseteq Workers /\ r.known \subseteq Workers
  /\ r.revision <= revision[r.project]
  /\ r.revision = revision[r.project] =>
       /\ r.next = "month" => Attended(r.project) \subseteq r.known
       /\ r.next \in {"advances", "commit"} => Current(r.entry, r.project)

RequestOK(r) ==
  /\ r.op = "attendance" =>
       /\ r.worker \in Workers /\ r.day \in Days /\ r.project \in Projects
       /\ r.after \in [wage: Nat, paid: BOOLEAN, version: Nat \ {0}]
       /\ worker[r.worker].known
  /\ r.op = "allocate" =>
       /\ r.worker \in Workers /\ r.day \in Days /\ r.project \in Projects
       /\ r.version \in Nat
  /\ r.op = "debit" => r.id \in DebitIds /\ r.item \in Debits
  /\ r.op = "generate" => Generating(r)

IInv ==
  /\ ItemTypes
  /\ AttendanceLocks
  /\ EntriesCurrent
  /\ DOMAIN req = Invocations
  /\ \A i \in Invocations : RequestOK(req[i])
-----------------------------------------------------------------------------
(* The inductive invariant of the advances, which rests on IInv.           *)

\* Registers have ids of their own, no id is excluded before it is given, and a
\* receipt is of an advance that exists.
AdvanceItems ==
  /\ \A p \in Projects : cycle[p].id < nextId
                          /\ (cycle[p].id = 0 => cycle[p] = NoCycle)
  /\ \A id \in AdvanceIds : advance[id] # NoAdvance =>
       \A c \in advance[id].excluded : 0 < c /\ c < nextId
  /\ \A k \in ReceiptKeys : clearing[k] # NoClearing =>
       advance[clearing[k].target] # NoAdvance

\* An advance that is about to be stored excludes the register that was read
Giving(r) ==
  /\ r.id \in AdvanceIds /\ r.item \in Advances
  /\ r.item.remaining = r.item.amount /\ r.item.cleared = 0
  /\ r.item.status = "Active"
  /\ r.cycle \in Nat /\ r.cycle < nextId
  /\ r.item.excluded = IF r.cycle = 0 THEN {} ELSE {r.cycle}

\* The version of an advance determines it
Clearing(r) ==
  /\ r.target \in AdvanceIds /\ r.receipt \in ReceiptKeys
  /\ r.before \in Advances /\ r.before.status = "Active"
  /\ r.amount \in Nat /\ r.amount <= r.before.remaining
  /\ r.op = "advance_delete" => r.amount = r.before.remaining
  /\ advance[r.target] # NoAdvance
  /\ r.before.version <= advance[r.target].version
  /\ r.before.version = advance[r.target].version => advance[r.target] = r.before

\* What a register recovers is what was read of the months' advances, which
\* stands while the revision does
Generations == [op: {"generate"}, next: {"roster", "month", "advances", "commit"},
                project: Projects, revision: Nat, known: SUBSET Workers,
                entry: Cycles]
Recovering(r) ==
  /\ r \in Generations /\ r.revision <= revision[r.project]
  /\ r.next = "commit" /\ r.revision = revision[r.project] =>
       \A w \in r.entry.members : r.entry.recovery[w] = advanced[r.project][w]

AdvanceRequest(r) ==
  /\ r.op = "gang_configure" => r.start \in Days
  /\ r.op = "advance" => Giving(r)
  /\ r.op \in {"advance_clear", "advance_delete"} => Clearing(r)
  /\ r.op = "generate" => Recovering(r)

AdvanceInv ==
  /\ TypeOK /\ AdvanceItems
  /\ AdvanceTotals /\ RecoveryCurrent /\ ClearedOnce
  /\ \A i \in Invocations : AdvanceRequest(req[i])
=============================================================================
