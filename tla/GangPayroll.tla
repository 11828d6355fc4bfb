------------------------------ MODULE GangPayroll ------------------------------
(***************************************************************************)
(* Headcount gangs, their organization-wide rolling advance account and    *)
(* the monthly payroll registers that recover advances from wages.         *)
(*                                                                         *)
(* Every API request is served by a Lambda invocation that takes           *)
(* consistent reads one after the other and then issues one conditional    *)
(* transact_write_items.  Invocations run concurrently, so an invocation   *)
(* is modelled as a staged record: what it has read so far (req, seen) and *)
(* what it still has to read (unread).  A commit writes values computed    *)
(* from what was READ; only the conditions of the transaction relate them  *)
(* to what is stored now.  A failed condition, a crash or a timeout is     *)
(* Abandon: nothing was written.                                           *)
(*                                                                         *)
(* One calendar month is modelled; a register is a project's payroll for   *)
(* that month.  Registers of other months share only the gang account,     *)
(* exactly as registers of other projects do.                              *)
(***************************************************************************)
EXTENDS Totals

CONSTANTS
  Gangs,        \* headcount gangs of one organization
  Projects,     \* projects, each with one register for the month
  Days,         \* work dates of the month
  CashIds,      \* request identifiers a client may send (and send again)
  Invocations,  \* Lambda invocations in flight
  MaxWage,      \* bound: wage of one attendance entry
  MaxCash,      \* bound: amount of one cash entry
  MaxVersion,   \* bound: writes of one gang account (guard Room)
  MaxAssign     \* bound: writes of one allocation

ASSUME FiniteAssumption ==
  IsFiniteSet(Projects) /\ IsFiniteSet(Days) /\ IsFiniteSet(CashIds)

ASSUME BoundsAssumption ==
  /\ MaxWage \in Nat /\ MaxCash \in Nat
  /\ MaxVersion \in Nat /\ MaxAssign \in Nat

VARIABLES
  account,     \* GANG-ACCOUNT#gang
  allocation,  \* GANG-ALLOCATION#gang#day
  daily,       \* GANG-DAILY#day#gang of each project
  wages,       \* GANG-MONTH#month#gang of each project: grossWages
  revision,    \* MONTH#month of each project: revision
  cycle,       \* PAYROLL#month of each project: header and its entries
  cashEntry,   \* GANG-CASH-REQUEST#id: the action the receipt is bound to
  receipts,    \* PAYROLL-SETTLEMENT#cycleId#selected
  nextId,      \* source of fresh cycleId / createdAt values
  req,         \* the request each invocation serves and what it has read
  seen,        \* the gang accounts each invocation has read
  unread       \* the gang accounts each invocation still has to read

vars == << account, allocation, daily, wages, revision, cycle, cashEntry,
           receipts, nextId, req, seen, unread >>
stored == << account, allocation, daily, wages, revision, cycle, cashEntry,
             receipts, nextId >>
payrollVars == << cycle, receipts, nextId >>
rosterVars == << allocation, daily, wages, revision >>

-----------------------------------------------------------------------------
(* Items of the workforce and payroll tables.                              *)

Accounts == [given: Nat, returned: Nat, recovered: Int, reserved: Int,
             earned: Int, paid: Int, version: Nat]
NoAccount == [given |-> 0, returned |-> 0, recovered |-> 0, reserved |-> 0,
              earned |-> 0, paid |-> 0, version |-> 0]

\* projects is the assigned project as a set: {} before the first assignment
Allocations == [project: SUBSET Projects, started: BOOLEAN, version: Nat]
NoAllocation == [project |-> {}, started |-> FALSE, version |-> 0]

Dailies == [wage: Nat, version: Nat]
NoDaily == [wage |-> 0, version |-> 0]

\* settlements counts settlementRevision; members are the gangs with an entry
Cycles == [id: Nat, status: {"None", "Pending", "PartiallyPaid", "Paid"},
           settlements: Nat, members: SUBSET Gangs, paid: SUBSET Gangs,
           gross: [Gangs -> Int], recovery: [Gangs -> Int]]
NoCycle == [id |-> 0, status |-> "None", settlements |-> 0, members |-> {},
            paid |-> {}, gross |-> [g \in Gangs |-> 0],
            recovery |-> [g \in Gangs |-> 0]]

NoCash == [op |-> "none"]   \* no receipt for the request id
CashActions == [op: {"gang_advance", "gang_advance_return"}, gang: Gangs,
                amount: Nat]

Idle == [op |-> "idle"]
CashRequests == [op: {"gang_advance", "gang_advance_return"}, gang: Gangs,
                 amount: Nat, id: CashIds]
AllocateRequests == [op: {"gang_allocate"}, gang: Gangs, day: Days,
                     project: Projects, before: Allocations]
AttendanceRequests == [op: {"gang_attendance"}, gang: Gangs, day: Days,
                       project: Projects, wage: Nat, before: Dailies,
                       assigned: Allocations]
GenerateRequests == [op: {"generate"}, project: Projects, revision: Nat,
                     queried: BOOLEAN, members: SUBSET Gangs,
                     gross: [Gangs -> Int]]
ReopenRequests == [op: {"reopen"}, project: Projects, cycle: Cycles]
SettleRequests == [op: {"settle"}, project: Projects, cycle: Cycles,
                   selected: Gangs \cup {"all"}]
Requests == {Idle} \cup CashRequests \cup AllocateRequests
            \cup AttendanceRequests \cup GenerateRequests
            \cup ReopenRequests \cup SettleRequests

-----------------------------------------------------------------------------
(* Gang accounts.  An operator named ...Slip is its successor with a        *)
(* plausible bug; the checks exchange them to see which property notices.  *)

AvailableSlip(a) == a.given - a.returned - a.recovered

\* balance(saved)['advanceBalance'] - saved.get('reserved', 0)
Available(a) == a.given - a.returned - a.recovered - a.reserved

\* recovery = min(available, grossWages)
Recovery(a, gross) == IF Available(a) <= gross THEN Available(a) ELSE gross

\* account_change: every write of an account advances its version
Bump(a) == [a EXCEPT !.version = @ + 1]
GivenSlip(a, n) == Bump([a EXCEPT !.given = @ - n])
Given(a, n) == Bump([a EXCEPT !.given = @ + n])
Returned(a, n) == Bump([a EXCEPT !.returned = @ + n])
Earned(a, n) == Bump([a EXCEPT !.earned = @ + n])
Reserved(a, n) == Bump([a EXCEPT !.reserved = @ + n])
Released(a, n) == Bump([a EXCEPT !.reserved = @ - n])
SettledSlip(a, n, net) ==
  Bump([a EXCEPT !.reserved = 0, !.recovered = @ + n, !.paid = @ + net])
Settled(a, n, net) ==
  Bump([a EXCEPT !.reserved = @ - n, !.recovered = @ + n, !.paid = @ + net])

FreshSlip(i, G) == TRUE

\* versioned_put: the transaction fails unless the stored version was read
Fresh(i, G) == \A g \in G : account[g].version = seen[i][g].version

\* Bound: no account is written more than MaxVersion times, because none is
\* read for a write once it has that version
Room(G) == \A g \in G : account[g].version < MaxVersion

-----------------------------------------------------------------------------
(* Life of an invocation.                                                  *)

Start(i, r, G) ==
  /\ req[i] = Idle /\ Room(G)
  /\ req' = [req EXCEPT ![i] = r]
  /\ unread' = [unread EXCEPT ![i] = G]
  /\ UNCHANGED << stored, seen >>

Finish(i) ==
  /\ req' = [req EXCEPT ![i] = Idle]
  /\ seen' = [seen EXCEPT ![i] = [g \in Gangs |-> NoAccount]]
  /\ unread' = [unread EXCEPT ![i] = {}]

\* account(table, org, gid): one consistent read per gang
ReadAccount(i, g) ==
  /\ g \in unread[i] /\ Room({g})
  /\ seen' = [seen EXCEPT ![i][g] = account[g]]
  /\ unread' = [unread EXCEPT ![i] = @ \ {g}]
  /\ UNCHANGED << stored, req >>

\* ValueError, 409 on a failed condition, crash or timeout before the write
Abandon(i) ==
  /\ req[i] # Idle
  /\ Finish(i)
  /\ UNCHANGED stored

Ready(i, op) == req[i].op = op /\ unread[i] = {}

-----------------------------------------------------------------------------
(* gang_advance, gang_advance_return.                                      *)

UnusedSlip(id) == TRUE

\* The receipt binds a request id: attribute_not_exists(PK)
Unused(id) == cashEntry[id] = NoCash

\* A request id already receipted answers from the receipt and writes nothing
StartCash(i, op, g, id, n) ==
  /\ Unused(id)
  /\ Start(i, [op |-> op, gang |-> g, amount |-> n, id |-> id], {g})

CommitCash(i) ==
  /\ req[i].op \in {"gang_advance", "gang_advance_return"} /\ unread[i] = {}
  /\ LET r == req[i]
         a == seen[i][r.gang]
     IN  /\ r.op = "gang_advance_return" => r.amount <= Available(a)
         /\ Unused(r.id)
         /\ Fresh(i, {r.gang})
         /\ cashEntry' = [cashEntry EXCEPT ![r.id] =
                            [op |-> r.op, gang |-> r.gang, amount |-> r.amount]]
         /\ account' = [account EXCEPT ![r.gang] =
                          IF r.op = "gang_advance" THEN Given(a, r.amount)
                                                   ELSE Returned(a, r.amount)]
  /\ Finish(i)
  /\ UNCHANGED << rosterVars, payrollVars >>

-----------------------------------------------------------------------------
(* gang_allocate.                                                          *)

StartAllocate(i, g, d, p) ==
  /\ ~allocation[g][d].started /\ allocation[g][d].version < MaxAssign
  /\ Start(i, [op |-> "gang_allocate", gang |-> g, day |-> d, project |-> p,
               before |-> allocation[g][d]], {})

\* The condition is the version alone: attendanceStarted is not among it
CommitAllocate(i) ==
  /\ Ready(i, "gang_allocate")
  /\ LET r == req[i]
     IN  /\ allocation[r.gang][r.day].version = r.before.version
         /\ allocation' = [allocation EXCEPT ![r.gang][r.day] =
              [project |-> {r.project}, started |-> FALSE,
               version |-> r.before.version + 1]]
  /\ Finish(i)
  /\ UNCHANGED << account, daily, wages, revision, cashEntry, payrollVars >>

-----------------------------------------------------------------------------
(* gang_attendance: first entry or correction of a date.                   *)

DeltaSlip(r) == r.wage

\* A correction posts the difference to the entry it replaces
Delta(r) == r.wage - r.before.wage

StartAttendance(i, g, d, p, w) ==
  /\ p \in allocation[g][d].project
  /\ cycle[p] = NoCycle
  /\ Start(i, [op |-> "gang_attendance", gang |-> g, day |-> d, project |-> p,
               wage |-> w, before |-> daily[p][g][d],
               assigned |-> allocation[g][d]], {g})

CommitAttendance(i) ==
  /\ Ready(i, "gang_attendance")
  /\ LET r == req[i]
         g == r.gang
         p == r.project
         delta == Delta(r)
     IN  /\ daily[p][g][r.day].version = r.before.version
         /\ allocation[g][r.day].version = r.assigned.version
         /\ p \in allocation[g][r.day].project
         /\ cycle[p] = NoCycle
         /\ Fresh(i, {g})
         /\ daily' = [daily EXCEPT ![p][g][r.day] =
                        [wage |-> r.wage, version |-> r.before.version + 1]]
         /\ allocation' = [allocation EXCEPT ![g][r.day].started = TRUE]
         /\ wages' = [wages EXCEPT ![p][g] = @ + delta]
         /\ revision' = [revision EXCEPT ![p] = @ + 1]
         /\ account' = [account EXCEPT ![g] = Earned(seen[i][g], delta)]
  /\ Finish(i)
  /\ UNCHANGED << cashEntry, payrollVars >>

-----------------------------------------------------------------------------
(* POST payroll: generate and publish a register.                          *)

\* The month's revision is read before any source of the snapshot
StartGenerate(i, p) ==
  /\ cycle[p] = NoCycle
  /\ Start(i, [op |-> "generate", project |-> p, revision |-> revision[p],
               queried |-> FALSE, members |-> {},
               gross |-> [g \in Gangs |-> 0]], {})

\* GANG-MONTH rows exist for gangs with recorded attendance
Recorded(p) == {g \in Gangs : \E d \in Days : daily[p][g][d].version > 0}

QueryTotals(i) ==
  /\ req[i].op = "generate" /\ ~req[i].queried
  /\ LET p == req[i].project
     IN  /\ req' = [req EXCEPT ![i] =
                      [@ EXCEPT !.queried = TRUE, !.members = Recorded(p),
                                !.gross = wages[p]]]
         /\ unread' = [unread EXCEPT ![i] = Recorded(p)]
  /\ UNCHANGED << stored, seen >>

SourcesUnchangedSlip(r) == TRUE

\* revision_key, salary_revision_key: no source changed since it was read
SourcesUnchanged(r) == revision[r.project] = r.revision

CommitGenerate(i) ==
  /\ Ready(i, "generate") /\ req[i].queried
  /\ LET r == req[i]
         G == r.members
         recovery == [g \in Gangs |-> IF g \in G
                                      THEN Recovery(seen[i][g], r.gross[g])
                                      ELSE 0]
     IN  /\ G # {}
         /\ cycle[r.project] = NoCycle
         /\ SourcesUnchanged(r)
         /\ Fresh(i, G)
         /\ cycle' = [cycle EXCEPT ![r.project] =
              [id |-> nextId, status |-> "Pending", settlements |-> 0,
               members |-> G, paid |-> {}, gross |-> r.gross,
               recovery |-> recovery]]
         /\ account' = [g \in Gangs |-> IF g \in G
                                        THEN Reserved(seen[i][g], recovery[g])
                                        ELSE account[g]]
         /\ nextId' = nextId + 1
  /\ Finish(i)
  /\ UNCHANGED << rosterVars, cashEntry, receipts >>

-----------------------------------------------------------------------------
(* DELETE payroll: reopen an entirely unpaid register.                     *)

StartReopen(i, p) ==
  /\ cycle[p].status = "Pending" /\ cycle[p].paid = {}
  /\ Start(i, [op |-> "reopen", project |-> p, cycle |-> cycle[p]],
           cycle[p].members)

\* 'Gang advance reservation is missing' unless every reservation is there
Reservation(i, c, G) == \A g \in G : seen[i][g].reserved >= c.recovery[g]

CommitReopen(i) ==
  /\ Ready(i, "reopen")
  /\ LET p == req[i].project
         c == req[i].cycle
         G == c.members
     IN  /\ cycle[p].status = "Pending" /\ cycle[p].id = c.id
         /\ Reservation(i, c, G)
         /\ Fresh(i, G)
         /\ cycle' = [cycle EXCEPT ![p] = NoCycle]
         /\ account' = [g \in Gangs |-> IF g \in G
                          THEN Released(seen[i][g], c.recovery[g])
                          ELSE account[g]]
  /\ Finish(i)
  /\ UNCHANGED << rosterVars, cashEntry, receipts, nextId >>

-----------------------------------------------------------------------------
(* POST payroll/disburse: settle one group or all remaining groups.        *)

Receipted(id, selected) ==
  \E x \in receipts : x.cycle = id /\ x.selected = selected

TargetSlip(c, selected) == IF selected = "all" THEN c.members
                                              ELSE {selected}
Target(c, selected) == IF selected = "all" THEN c.members \ c.paid
                                           ELSE {selected}

StartSettle(i, p, selected) ==
  LET c == cycle[p]
  IN  /\ c # NoCycle
      /\ selected \in c.members \cup {"all"}
      /\ ~Receipted(c.id, selected)
      /\ c.status # "Paid"
      /\ selected \notin c.paid
      /\ Start(i, [op |-> "settle", project |-> p, cycle |-> c,
                   selected |-> selected], Target(c, selected))

Net(c, g) == c.gross[g] - c.recovery[g]

DisbursedSlip(c, G) ==
  [c EXCEPT !.paid = G, !.settlements = @ + 1,
            !.status = IF G = c.members THEN "Paid" ELSE "PartiallyPaid"]

\* updated: the header with the groups G paid beside those paid before
Disbursed(c, G) ==
  [c EXCEPT !.paid = c.paid \cup G, !.settlements = @ + 1,
            !.status = IF c.paid \cup G = c.members THEN "Paid"
                                                    ELSE "PartiallyPaid"]

CommitSettle(i) ==
  /\ Ready(i, "settle")
  /\ LET p == req[i].project
         c == req[i].cycle
         G == Target(c, req[i].selected)
         now == cycle[p]
     IN  /\ now.status = c.status /\ now.id = c.id
         /\ now.settlements = c.settlements
         /\ ~Receipted(c.id, req[i].selected)
         /\ Reservation(i, c, G)
         /\ Fresh(i, G)
         /\ cycle' = [cycle EXCEPT ![p] = Disbursed(c, G)]
         /\ receipts' = receipts \cup
              {[cycle |-> c.id, selected |-> req[i].selected, groups |-> G]}
         /\ account' = [g \in Gangs |-> IF g \in G
                          THEN Settled(seen[i][g], c.recovery[g], Net(c, g))
                          ELSE account[g]]
  /\ Finish(i)
  /\ UNCHANGED << rosterVars, cashEntry, nextId >>

-----------------------------------------------------------------------------
Init ==
  /\ account = [g \in Gangs |-> NoAccount]
  /\ allocation = [g \in Gangs |-> [d \in Days |-> NoAllocation]]
  /\ daily = [p \in Projects |-> [g \in Gangs |-> [d \in Days |-> NoDaily]]]
  /\ wages = [p \in Projects |-> [g \in Gangs |-> 0]]
  /\ revision = [p \in Projects |-> 0]
  /\ cycle = [p \in Projects |-> NoCycle]
  /\ cashEntry = [id \in CashIds |-> NoCash]
  /\ receipts = {}
  /\ nextId = 1
  /\ req = [i \in Invocations |-> Idle]
  /\ seen = [i \in Invocations |-> [g \in Gangs |-> NoAccount]]
  /\ unread = [i \in Invocations |-> {}]

Begin(i) ==
  \/ \E op \in {"gang_advance", "gang_advance_return"}, g \in Gangs,
        id \in CashIds, n \in 1..MaxCash : StartCash(i, op, g, id, n)
  \/ \E g \in Gangs, d \in Days, p \in Projects : StartAllocate(i, g, d, p)
  \/ \E g \in Gangs, d \in Days, p \in Projects, w \in 0..MaxWage :
        StartAttendance(i, g, d, p, w)
  \/ \E p \in Projects : StartGenerate(i, p)
  \/ \E p \in Projects : StartReopen(i, p)
  \/ \E p \in Projects, s \in Gangs \cup {"all"} : StartSettle(i, p, s)

Commit(i) ==
  \/ CommitCash(i)
  \/ CommitAllocate(i)
  \/ CommitAttendance(i)
  \/ CommitGenerate(i)
  \/ CommitReopen(i)
  \/ CommitSettle(i)

Next ==
  \E i \in Invocations :
    \/ Begin(i)
    \/ \E g \in Gangs : ReadAccount(i, g)
    \/ QueryTotals(i)
    \/ Commit(i)
    \/ Abandon(i)

Spec == Init /\ [][Next]_vars
-----------------------------------------------------------------------------
(* Properties.                                                             *)

\* Every stored item and every request in flight has its type.
TypeOK ==
  /\ account \in [Gangs -> Accounts]
  /\ allocation \in [Gangs -> [Days -> Allocations]]
  /\ daily \in [Projects -> [Gangs -> [Days -> Dailies]]]
  /\ wages \in [Projects -> [Gangs -> Int]]
  /\ revision \in [Projects -> Nat]
  /\ cycle \in [Projects -> Cycles]
  /\ cashEntry \in [CashIds -> CashActions \cup {NoCash}]
  /\ receipts \subseteq [cycle: Nat, selected: Gangs \cup {"all"},
                         groups: SUBSET Gangs]
  /\ nextId \in Nat \ {0}
  /\ req \in [Invocations -> Requests]
  /\ seen \in [Invocations -> [Gangs -> Accounts]]
  /\ unread \in [Invocations -> SUBSET Gangs]

\* "Returns cannot exceed the unrecovered, unreserved balance" and "different
\* projects/months cannot recover the same money twice": what was returned,
\* recovered by paid registers and reserved by unpaid ones never exceeds what
\* was given, whatever requests race on the account.
AdvanceCovered ==
  \A g \in Gangs :
    account[g].returned + account[g].recovered + account[g].reserved
      <= account[g].given

\* The parts that make up the totals of a gang's account.
CashOf(op, g) == [id \in CashIds |->
  IF cashEntry[id].op = op /\ cashEntry[id].gang = g
  THEN cashEntry[id].amount ELSE 0]
WageOf(p, g) == [d \in Days |-> daily[p][g][d].wage]
EarnedOf(g) == [p \in Projects |-> wages[p][g]]
ReservedOf(g) == [p \in Projects |->
  IF g \in cycle[p].members \ cycle[p].paid THEN cycle[p].recovery[g] ELSE 0]
RecoveredOf(g) == [p \in Projects |->
  IF g \in cycle[p].paid THEN cycle[p].recovery[g] ELSE 0]
PaidOf(g) == [p \in Projects |->
  IF g \in cycle[p].paid THEN Net(cycle[p], g) ELSE 0]

\* A cash entry posts once however often its request id is sent, and a cash
\* entry is never lost: the account's cash is the sum over the receipts.
CashTotals ==
  \A g \in Gangs :
    /\ IsTotal(CashIds, CashOf("gang_advance", g), account[g].given)
    /\ IsTotal(CashIds, CashOf("gang_advance_return", g), account[g].returned)

\* The month's wages and the account's earnings, both kept by adding deltas,
\* are the sums of the dated attendance records through every correction.
WageTotals ==
  \A g \in Gangs :
    /\ \A p \in Projects : IsTotal(Days, WageOf(p, g), wages[p][g])
    /\ IsTotal(Projects, EarnedOf(g), account[g].earned)

\* Publishing reserves, reopening releases and settling recovers exactly the
\* recoveries of the registers' entries, and pays exactly their net wages.
RegisterTotals ==
  \A g \in Gangs :
    /\ IsTotal(Projects, ReservedOf(g), account[g].reserved)
    /\ IsTotal(Projects, RecoveredOf(g), account[g].recovered)
    /\ IsTotal(Projects, PaidOf(g), account[g].paid)

\* 'Gang advance reservation is missing' cannot be raised: the reservation of
\* every unpaid entry is still in the account, whatever else was posted.
ReservationHeld ==
  \A p \in Projects : \A g \in cycle[p].members \ cycle[p].paid :
    cycle[p].recovery[g] <= account[g].reserved

\* "Generated payroll locks attendance for that project/month": as long as a
\* register exists it holds exactly the gangs with recorded attendance and
\* their current month's wages, although both were read before publishing.
SnapshotCurrent ==
  \A p \in Projects : cycle[p] # NoCycle =>
    /\ cycle[p].members = Recorded(p)
    /\ \A g \in cycle[p].members : cycle[p].gross[g] = wages[p][g]

\* "Repeated settlements do not post twice": no group of a register is in two
\* settlement receipts, and the receipts of a register are its paid groups.
SettledOnce ==
  /\ \A x, y \in receipts :
       x.cycle = y.cycle /\ x # y => x.groups \cap y.groups = {}
  /\ \A p \in Projects :
       cycle[p].paid = UNION {x.groups : x \in {y \in receipts :
                                                 y.cycle = cycle[p].id}}

\* "Only unpaid payroll cycles can be reopened": a register with a payment is
\* neither deleted nor replaced, keeps its entries, and a paid group stays paid.
PaidRegisterStands ==
  [][\A p \in Projects : cycle[p].paid # {} =>
       /\ cycle'[p].id = cycle[p].id
       /\ cycle[p].paid \subseteq cycle'[p].paid
       /\ cycle'[p].gross = cycle[p].gross
       /\ cycle'[p].recovery = cycle[p].recovery]_vars

\* "Saved attendance locks the assignment": a gang with saved attendance on a
\* date is still assigned to that project on that date.
AttendanceLocksAssignment ==
  \A p \in Projects, g \in Gangs, d \in Days :
    daily[p][g][d].version > 0 => allocation[g][d].project = {p}

-----------------------------------------------------------------------------
(* The inductive invariant behind the properties above.                    *)

\* An account read by an invocation is older than the stored one or equal to
\* it: the version condition of a commit then says nothing was lost.
AccountSnapshots ==
  \A g \in Gangs :
    /\ account[g].version = 0 => account[g] = NoAccount
    /\ \A i \in Invocations :
         /\ seen[i][g].version <= account[g].version
         /\ seen[i][g].version = account[g].version => seen[i][g] = account[g]

\* The dated record an attendance request corrects is the stored one unless it
\* was corrected since it was read.
DailySnapshots ==
  \A i \in Invocations : req[i].op = "gang_attendance" =>
    LET r == req[i]
        now == daily[r.project][r.gang][r.day]
    IN  /\ r.before.version <= now.version
        /\ r.before.version = now.version => r.before = now

\* The totals read for a register are the current ones unless the month's
\* revision moved on since it was read.
TotalSnapshots ==
  \A i \in Invocations : req[i].op = "generate" =>
    LET r == req[i]
    IN  /\ r.revision <= revision[r.project]
        /\ r.queried /\ r.revision = revision[r.project] =>
             r.members = Recorded(r.project) /\ r.gross = wages[r.project]

\* A register's status tells whether anything of it is paid, and its id is
\* neither reused nor shared.
RegistersSound ==
  /\ \A p \in Projects :
       /\ cycle[p].id < nextId
       /\ cycle[p].id = 0 => cycle[p] = NoCycle
       /\ cycle[p].status \in {"None", "Pending"} =>
            cycle[p].paid = {} /\ cycle[p].settlements = 0
  /\ \A p, q \in Projects :
       cycle[p].id = cycle[q].id /\ cycle[p].id # 0 => p = q
  /\ \A x \in receipts : 0 < x.cycle /\ x.cycle < nextId

\* An entry recovers no more than its wages and never a negative amount.
EntriesSound ==
  \A p \in Projects, g \in Gangs :
    /\ cycle[p].paid \subseteq cycle[p].members
    /\ 0 <= cycle[p].recovery[g] /\ cycle[p].recovery[g] <= cycle[p].gross[g]

\* The header an invocation holds is the stored one unless the register was
\* settled further, or reopened, since it was read; what it settles was unpaid.
RegisterSnapshots ==
  \A i \in Invocations : req[i].op \in {"reopen", "settle"} =>
    LET c == req[i].cycle
        now == cycle[req[i].project]
    IN  /\ 0 < c.id /\ c.id < nextId
        /\ now.id = c.id => c.settlements <= now.settlements
        /\ now.id = c.id /\ now.settlements = c.settlements => now = c
        /\ req[i].op = "reopen" => c.settlements = 0
        /\ req[i].op = "settle" =>
             req[i].selected \in (c.members \ c.paid) \cup {"all"}

IInv ==
  /\ TypeOK
  /\ AccountSnapshots
  /\ DailySnapshots
  /\ TotalSnapshots
  /\ RegistersSound
  /\ RegisterSnapshots
  /\ EntriesSound
  /\ CashTotals
  /\ WageTotals
  /\ RegisterTotals
  /\ AdvanceCovered
  /\ SnapshotCurrent
  /\ SettledOnce
=============================================================================
