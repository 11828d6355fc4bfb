-------------------------- MODULE GangPayrollProofs --------------------------
(***************************************************************************)
(* Proofs about GangPayroll, for every set of gangs, projects, dates,      *)
(* request ids and invocations and for every bound.                        *)
(***************************************************************************)
EXTENDS GangPayroll, TotalsProofs, TLAPS

\* A request in flight belongs to the record set of its operation.
LEMMA RequestKinds ==
  ASSUME TypeOK, NEW i \in Invocations
  PROVE  /\ req[i].op \in {"gang_advance", "gang_advance_return"}
              => req[i] \in CashRequests
         /\ req[i].op = "gang_allocate" => req[i] \in AllocateRequests
         /\ req[i].op = "gang_attendance" => req[i] \in AttendanceRequests
         /\ req[i].op = "generate" => req[i] \in GenerateRequests
         /\ req[i].op = "reopen" => req[i] \in ReopenRequests
         /\ req[i].op = "settle" => req[i] \in SettleRequests
<1>1. req[i] \in Requests
  BY DEF TypeOK
<1>2. QED
  BY <1>1 DEF Requests, Idle, CashRequests, AllocateRequests,
              AttendanceRequests, GenerateRequests, ReopenRequests,
              SettleRequests

\* A typed request of each operation, for any value of req.
LEMMA RequestOf ==
  ASSUME NEW r \in Requests
  PROVE  /\ r.op = "gang_attendance" => r \in AttendanceRequests
         /\ r.op = "generate" => r \in GenerateRequests
BY DEF Requests, Idle, CashRequests, AllocateRequests, AttendanceRequests,
       GenerateRequests, ReopenRequests, SettleRequests

\* The account operators stay within the account type.
LEMMA NoAccountType == NoAccount \in Accounts
BY DEF Accounts, NoAccount

LEMMA FieldTypes ==
  ASSUME NEW a \in Accounts
  PROVE  /\ \A n \in Nat : [a EXCEPT !.given = n] \in Accounts
         /\ \A n \in Nat : [a EXCEPT !.returned = n] \in Accounts
         /\ \A n \in Int : [a EXCEPT !.recovered = n] \in Accounts
         /\ \A n \in Int : [a EXCEPT !.reserved = n] \in Accounts
         /\ \A n \in Int : [a EXCEPT !.earned = n] \in Accounts
         /\ \A n \in Int : [a EXCEPT !.paid = n] \in Accounts
BY DEF Accounts

LEMMA BumpType ==
  ASSUME NEW a \in Accounts
  PROVE  Bump(a) \in Accounts
BY DEF Accounts, Bump

LEMMA AccountTypes ==
  ASSUME NEW a \in Accounts
  PROVE  /\ \A n \in Nat : Given(a, n) \in Accounts
         /\ \A n \in Nat : Returned(a, n) \in Accounts
         /\ \A n \in Int : Earned(a, n) \in Accounts
         /\ \A n \in Int : Reserved(a, n) \in Accounts
         /\ \A n \in Int : Released(a, n) \in Accounts
         /\ \A n, m \in Int : Settled(a, n, m) \in Accounts
<1>1. /\ a.given \in Nat /\ a.returned \in Nat
      /\ a.recovered \in Int /\ a.reserved \in Int
      /\ a.earned \in Int /\ a.paid \in Int
  BY DEF Accounts
<1>2. \A n \in Nat : Given(a, n) \in Accounts
  BY <1>1, FieldTypes, BumpType DEF Given
<1>3. \A n \in Nat : Returned(a, n) \in Accounts
  BY <1>1, FieldTypes, BumpType DEF Returned
<1>4. \A n \in Int : Earned(a, n) \in Accounts
  BY <1>1, FieldTypes, BumpType DEF Earned
<1>5. \A n \in Int : Reserved(a, n) \in Accounts
  BY <1>1, FieldTypes, BumpType DEF Reserved
<1>6. \A n \in Int : Released(a, n) \in Accounts
  BY <1>1, FieldTypes, BumpType DEF Released
<1>7. ASSUME NEW n \in Int, NEW m \in Int
      PROVE  Settled(a, n, m) \in Accounts
  <2>1. /\ a.reserved - n \in Int /\ a.recovered + n \in Int
        /\ a.paid + m \in Int
    BY <1>1
  <2>2. [a EXCEPT !.reserved = @ - n, !.recovered = @ + n, !.paid = @ + m]
          \in Accounts
    BY <2>1, FieldTypes DEF Accounts
  <2>3. QED
    BY <2>2, BumpType DEF Settled
<1>8. QED
  BY <1>2, <1>3, <1>4, <1>5, <1>6, <1>7

LEMMA RecoveryType ==
  ASSUME NEW a \in Accounts, NEW n \in Int
  PROVE  /\ Available(a) \in Int
         /\ Recovery(a, n) \in Int
         /\ Recovery(a, n) <= Available(a)
BY DEF Accounts, Available, Recovery

LEMMA StartedType ==
  ASSUME NEW a \in Allocations
  PROVE  [a EXCEPT !.started = TRUE] \in Allocations
BY DEF Allocations

\* So does a register that a settlement marks paid.
LEMMA PaidType ==
  ASSUME NEW c \in Cycles, NEW G \in SUBSET Gangs,
         NEW s \in {"PartiallyPaid", "Paid"}
  PROVE  [c EXCEPT !.paid = G, !.settlements = @ + 1, !.status = s] \in Cycles
<1>1. \A b \in Cycles : [b EXCEPT !.paid = G] \in Cycles
  BY DEF Cycles
<1>2. \A b \in Cycles, n \in Nat : [b EXCEPT !.settlements = n] \in Cycles
  BY DEF Cycles
<1>3. \A b \in Cycles : [b EXCEPT !.status = s] \in Cycles
  BY DEF Cycles
<1>4. c.settlements \in Nat
  BY DEF Cycles
<1>5. c.settlements + 1 \in Nat
  BY <1>4
<1>6. [c EXCEPT !.paid = G, !.settlements = @ + 1, !.status = s] \in Cycles
  BY <1>1, <1>2, <1>3, <1>5
<1>7. QED
  BY <1>6

LEMMA NoCycleType == NoCycle \in Cycles
BY DEF NoCycle, Cycles

LEMMA FinishType ==
  ASSUME TypeOK, NEW i \in Invocations, Finish(i)
  PROVE  /\ req' \in [Invocations -> Requests]
         /\ seen' \in [Invocations -> [Gangs -> Accounts]]
         /\ unread' \in [Invocations -> SUBSET Gangs]
BY NoAccountType DEF TypeOK, Finish, Requests

LEMMA StartType ==
  ASSUME TypeOK, NEW i \in Invocations, NEW r \in Requests,
         NEW G \in SUBSET Gangs, Start(i, r, G)
  PROVE  TypeOK'
BY DEF TypeOK, Start, stored, Recorded

LEMMA InitType == Init => TypeOK
BY NoAccountType
   DEF Init, TypeOK, NoAllocation, Allocations, NoDaily, Dailies, NoCycle,
       Cycles, NoCash, Requests, Idle, CashActions

LEMMA CashType ==
  ASSUME TypeOK, NEW i \in Invocations, CommitCash(i)
  PROVE  TypeOK'
<1>1. req[i] \in CashRequests
  BY RequestKinds DEF CommitCash, Unused
<1>2. seen[i][req[i].gang] \in Accounts
  BY <1>1 DEF TypeOK, CashRequests
<1>3. account' \in [Gangs -> Accounts]
  BY <1>1, <1>2, AccountTypes DEF CommitCash, TypeOK, CashRequests
<1>4. cashEntry' \in [CashIds -> CashActions \cup {NoCash}]
  BY <1>1 DEF CommitCash, TypeOK, CashRequests, CashActions
<1>5. Finish(i) /\ UNCHANGED << rosterVars, payrollVars >>
  BY DEF CommitCash, Unused
<1>6. QED
  BY <1>3, <1>4, <1>5, FinishType DEF TypeOK, rosterVars, payrollVars

LEMMA AllocateType ==
  ASSUME TypeOK, NEW i \in Invocations, CommitAllocate(i)
  PROVE  TypeOK'
<1>1. req[i] \in AllocateRequests
  BY RequestKinds DEF CommitAllocate, Ready
<1>2. [project |-> {req[i].project}, started |-> FALSE,
       version |-> req[i].before.version + 1] \in Allocations
  BY <1>1 DEF AllocateRequests, Allocations
<1>3. allocation' \in [Gangs -> [Days -> Allocations]]
  BY <1>1, <1>2 DEF CommitAllocate, TypeOK, AllocateRequests
<1>4. /\ Finish(i)
      /\ UNCHANGED << account, daily, wages, revision, cashEntry, payrollVars >>
  BY DEF CommitAllocate
<1>5. QED
  BY <1>3, <1>4, FinishType DEF TypeOK, payrollVars

LEMMA AttendanceType ==
  ASSUME TypeOK, NEW i \in Invocations, CommitAttendance(i)
  PROVE  TypeOK'
<1>1. req[i] \in AttendanceRequests
  BY RequestKinds, Zenon DEF CommitAttendance, Ready
<1> DEFINE g == req[i].gang
           p == req[i].project
           d == req[i].day
<1>2. /\ g \in Gangs /\ p \in Projects /\ d \in Days
      /\ req[i].wage \in Nat /\ req[i].before \in Dailies
  BY <1>1 DEF AttendanceRequests
<1>3. Delta(req[i]) \in Int
  BY <1>2 DEF Dailies, Delta
<1>4. account' \in [Gangs -> Accounts]
  <2>1. account' = [account EXCEPT ![g] = Earned(seen[i][g], Delta(req[i]))]
    BY Zenon DEF CommitAttendance
  <2>2. Earned(seen[i][g], Delta(req[i])) \in Accounts
    BY <1>2, <1>3, AccountTypes DEF TypeOK
  <2>3. QED
    BY <2>1, <2>2 DEF TypeOK
<1>5. daily' \in [Projects -> [Gangs -> [Days -> Dailies]]]
  <2> DEFINE item == [wage |-> req[i].wage,
                      version |-> req[i].before.version + 1]
  <2>1. item \in Dailies
    BY <1>2 DEF Dailies
  <2>2. daily' = [daily EXCEPT ![p][g][d] = item]
    BY Zenon DEF CommitAttendance
  <2> HIDE DEF item
  <2>3. QED
    BY <1>2, <2>1, <2>2 DEF TypeOK
<1>6. allocation' \in [Gangs -> [Days -> Allocations]]
  <2>1. [allocation[g][d] EXCEPT !.started = TRUE] \in Allocations
    BY <1>2, StartedType DEF TypeOK
  <2>2. allocation' = [allocation EXCEPT ![g] = [allocation[g] EXCEPT ![d] =
                         [allocation[g][d] EXCEPT !.started = TRUE]]]
    BY Zenon DEF CommitAttendance
  <2>3. QED
    BY <1>2, <2>1, <2>2 DEF TypeOK
<1>7. wages' \in [Projects -> [Gangs -> Int]]
  <2>1. wages' = [wages EXCEPT ![p] = [wages[p] EXCEPT ![g] =
                    wages[p][g] + Delta(req[i])]]
    BY Zenon DEF CommitAttendance
  <2>2. wages[p][g] + Delta(req[i]) \in Int
    BY <1>2, <1>3 DEF TypeOK
  <2>3. QED
    BY <1>2, <2>1, <2>2 DEF TypeOK
<1>8. revision' \in [Projects -> Nat]
  <2>1. revision' = [revision EXCEPT ![p] = revision[p] + 1]
    BY Zenon DEF CommitAttendance
  <2>2. QED
    BY <1>2, <2>1 DEF TypeOK
<1>9. Finish(i) /\ UNCHANGED << cashEntry, payrollVars >>
  BY Zenon DEF CommitAttendance
<1>10. QED
  BY <1>4, <1>5, <1>6, <1>7, <1>8, <1>9, FinishType DEF TypeOK, payrollVars

LEMMA QueryType ==
  ASSUME TypeOK, NEW i \in Invocations, QueryTotals(i)
  PROVE  TypeOK'
<1>1. req[i] \in GenerateRequests
  BY RequestKinds DEF QueryTotals
<1> DEFINE p == req[i].project
           r == [req[i] EXCEPT !.queried = TRUE, !.members = Recorded(p),
                               !.gross = wages[p]]
<1>2. p \in Projects
  BY <1>1 DEF GenerateRequests
<1>3. Recorded(p) \in SUBSET Gangs /\ wages[p] \in [Gangs -> Int]
  BY <1>2 DEF Recorded, TypeOK
<1>4. r \in GenerateRequests
  <2>1. \A x \in GenerateRequests :
          [x EXCEPT !.queried = TRUE] \in GenerateRequests
    BY DEF GenerateRequests
  <2>2. \A x \in GenerateRequests, G \in SUBSET Gangs :
          [x EXCEPT !.members = G] \in GenerateRequests
    BY DEF GenerateRequests
  <2>3. \A x \in GenerateRequests, f \in [Gangs -> Int] :
          [x EXCEPT !.gross = f] \in GenerateRequests
    BY DEF GenerateRequests
  <2>4. QED
    BY <1>1, <1>3, <2>1, <2>2, <2>3
<1>5. req' = [req EXCEPT ![i] = r] /\ unread' = [unread EXCEPT ![i] = Recorded(p)]
  BY DEF QueryTotals, TypeOK
<1>6. req' \in [Invocations -> Requests]
  BY <1>4, <1>5 DEF TypeOK, Requests
<1>7. unread' \in [Invocations -> SUBSET Gangs]
  BY <1>3, <1>5 DEF TypeOK
<1>8. UNCHANGED << stored, seen >>
  BY DEF QueryTotals
<1>9. QED
  BY <1>6, <1>7, <1>8 DEF TypeOK, stored

LEMMA GenerateType ==
  ASSUME TypeOK, NEW i \in Invocations, CommitGenerate(i)
  PROVE  TypeOK'
<1>1. req[i] \in GenerateRequests
  BY RequestKinds DEF CommitGenerate, Ready
<1> DEFINE r == req[i]
           G == r.members
           recovery == [g \in Gangs |-> IF g \in G
                                        THEN Recovery(seen[i][g], r.gross[g])
                                        ELSE 0]
           new == [id |-> nextId, status |-> "Pending", settlements |-> 0,
                   members |-> G, paid |-> {}, gross |-> r.gross,
                   recovery |-> recovery]
<1>2. /\ r.project \in Projects /\ G \in SUBSET Gangs
      /\ r.gross \in [Gangs -> Int]
  BY <1>1 DEF GenerateRequests
<1>3. recovery \in [Gangs -> Int]
  BY <1>2, RecoveryType DEF TypeOK
<1>4. new \in Cycles
  BY <1>2, <1>3 DEF TypeOK, Cycles
<1>5. /\ cycle' = [cycle EXCEPT ![r.project] = new]
      /\ account' = [g \in Gangs |-> IF g \in G
                                     THEN Reserved(seen[i][g], recovery[g])
                                     ELSE account[g]]
      /\ nextId' = nextId + 1
      /\ Finish(i)
      /\ UNCHANGED << rosterVars, cashEntry, receipts >>
  BY DEF CommitGenerate
<1>6. cycle' \in [Projects -> Cycles]
  BY <1>2, <1>4, <1>5 DEF TypeOK
<1>7. account' \in [Gangs -> Accounts]
  BY <1>3, <1>5, AccountTypes DEF TypeOK
<1>8. QED
  BY <1>5, <1>6, <1>7, FinishType DEF TypeOK, rosterVars

LEMMA ReopenType ==
  ASSUME TypeOK, NEW i \in Invocations, CommitReopen(i)
  PROVE  TypeOK'
<1>1. req[i] \in ReopenRequests
  BY RequestKinds DEF CommitReopen, Ready
<1>2. /\ req[i].project \in Projects
      /\ req[i].cycle \in Cycles
      /\ req[i].cycle.recovery \in [Gangs -> Int]
  BY <1>1 DEF ReopenRequests, Cycles
<1>3. cycle' \in [Projects -> Cycles]
  BY <1>2, NoCycleType DEF CommitReopen, TypeOK
<1>4. account' \in [Gangs -> Accounts]
  <2> DEFINE c == req[i].cycle
  <2>1. ASSUME NEW g \in Gangs
        PROVE  /\ Released(seen[i][g], c.recovery[g]) \in Accounts
               /\ account[g] \in Accounts
    BY <1>2, AccountTypes, Zenon DEF TypeOK
  <2>2. account' = [g \in Gangs |-> IF g \in c.members
                     THEN Released(seen[i][g], c.recovery[g])
                     ELSE account[g]]
    BY DEF CommitReopen
  <2>3. QED
    BY <2>1, <2>2
<1>5. Finish(i) /\ UNCHANGED << rosterVars, cashEntry, receipts, nextId >>
  BY DEF CommitReopen
<1>6. QED
  BY <1>3, <1>4, <1>5, FinishType DEF TypeOK, rosterVars

LEMMA SettleType ==
  ASSUME TypeOK, NEW i \in Invocations, CommitSettle(i)
  PROVE  TypeOK'
<1>1. req[i] \in SettleRequests
  BY RequestKinds DEF CommitSettle, Ready
<1> DEFINE p == req[i].project
           c == req[i].cycle
           s == req[i].selected
           G == Target(c, s)
           status == IF c.paid \cup G = c.members THEN "Paid"
                                                  ELSE "PartiallyPaid"
           new == [c EXCEPT !.paid = c.paid \cup G, !.settlements = @ + 1,
                            !.status = status]
           receipt == [cycle |-> c.id, selected |-> s, groups |-> G]
<1>2. p \in Projects /\ c \in Cycles /\ s \in Gangs \cup {"all"}
  BY <1>1 DEF SettleRequests
<1>3. /\ c.members \in SUBSET Gangs /\ c.paid \in SUBSET Gangs /\ c.id \in Nat
      /\ c.gross \in [Gangs -> Int] /\ c.recovery \in [Gangs -> Int]
  BY <1>2 DEF Cycles
<1>4. G \in SUBSET Gangs
  BY <1>2, <1>3 DEF Target
<1>5. new \in Cycles
  BY <1>2, <1>3, <1>4, PaidType, Zenon
<1>6. /\ cycle' = [cycle EXCEPT ![p] = new]
      /\ receipts' = receipts \cup {receipt}
      /\ account' = [g \in Gangs |-> IF g \in G
                       THEN Settled(seen[i][g], c.recovery[g], Net(c, g))
                       ELSE account[g]]
      /\ Finish(i)
      /\ UNCHANGED << rosterVars, cashEntry, nextId >>
  BY DEF CommitSettle, Disbursed
<1>7. cycle' \in [Projects -> Cycles]
  BY <1>2, <1>5, <1>6 DEF TypeOK
<1>8. account' \in [Gangs -> Accounts]
  <2>1. ASSUME NEW g \in Gangs
        PROVE  /\ Settled(seen[i][g], c.recovery[g], Net(c, g)) \in Accounts
               /\ account[g] \in Accounts
    <3>1. c.recovery[g] \in Int /\ Net(c, g) \in Int
      BY <1>3 DEF Net
    <3>2. seen[i][g] \in Accounts /\ account[g] \in Accounts
      BY DEF TypeOK
    <3>3. QED
      BY <3>1, <3>2, AccountTypes
  <2>2. QED
    BY <1>6, <2>1
<1>9. receipts' \subseteq [cycle: Nat, selected: Gangs \cup {"all"},
                           groups: SUBSET Gangs]
  BY <1>2, <1>3, <1>4, <1>6 DEF TypeOK
<1>10. QED
  BY <1>6, <1>7, <1>8, <1>9, FinishType DEF TypeOK, rosterVars

LEMMA BeginType ==
  ASSUME TypeOK, NEW i \in Invocations, Begin(i)
  PROVE  TypeOK'
<1>1. ASSUME NEW op \in {"gang_advance", "gang_advance_return"},
             NEW g \in Gangs, NEW id \in CashIds, NEW n \in 1..MaxCash,
             StartCash(i, op, g, id, n)
      PROVE  TypeOK'
  <2>1. n \in Nat
    BY BoundsAssumption
  <2>2. [op |-> op, gang |-> g, amount |-> n, id |-> id] \in Requests
    BY <2>1 DEF Requests, CashRequests
  <2>3. QED
    BY <1>1, <2>2, StartType DEF StartCash
<1>2. ASSUME NEW g \in Gangs, NEW d \in Days, NEW p \in Projects,
             StartAllocate(i, g, d, p)
      PROVE  TypeOK'
  <2>1. allocation[g][d] \in Allocations
    BY DEF TypeOK
  <2>2. [op |-> "gang_allocate", gang |-> g, day |-> d, project |-> p,
         before |-> allocation[g][d]] \in Requests
    BY <2>1 DEF Requests, AllocateRequests
  <2>3. QED
    BY <1>2, <2>2, StartType DEF StartAllocate
<1>3. ASSUME NEW g \in Gangs, NEW d \in Days, NEW p \in Projects,
             NEW w \in 0..MaxWage, StartAttendance(i, g, d, p, w)
      PROVE  TypeOK'
  <2>1. /\ w \in Nat
        /\ allocation[g][d] \in Allocations /\ daily[p][g][d] \in Dailies
    BY BoundsAssumption DEF TypeOK
  <2>2. [op |-> "gang_attendance", gang |-> g, day |-> d, project |-> p,
         wage |-> w, before |-> daily[p][g][d],
         assigned |-> allocation[g][d]] \in Requests
    BY <2>1 DEF Requests, AttendanceRequests
  <2>3. QED
    BY <1>3, <2>2, StartType DEF StartAttendance
<1>4. ASSUME NEW p \in Projects, StartGenerate(i, p)
      PROVE  TypeOK'
  <2>1. revision[p] \in Nat
    BY DEF TypeOK
  <2>2. [op |-> "generate", project |-> p, revision |-> revision[p],
         queried |-> FALSE, members |-> {}, gross |-> [g \in Gangs |-> 0]]
           \in Requests
    BY <2>1 DEF Requests, GenerateRequests
  <2>3. QED
    BY <1>4, <2>2, StartType DEF StartGenerate
<1>5. ASSUME NEW p \in Projects, StartReopen(i, p)
      PROVE  TypeOK'
  <2>1. cycle[p] \in Cycles /\ cycle[p].members \in SUBSET Gangs
    BY DEF TypeOK, Cycles
  <2>2. [op |-> "reopen", project |-> p, cycle |-> cycle[p]] \in Requests
    BY <2>1 DEF Requests, ReopenRequests
  <2>3. QED
    BY <1>5, <2>1, <2>2, StartType DEF StartReopen
<1>6. ASSUME NEW p \in Projects, NEW s \in Gangs \cup {"all"},
             StartSettle(i, p, s)
      PROVE  TypeOK'
  <2>1. cycle[p] \in Cycles /\ cycle[p].members \in SUBSET Gangs
    BY DEF TypeOK, Cycles
  <2>2. [op |-> "settle", project |-> p, cycle |-> cycle[p],
         selected |-> s] \in Requests
    BY <2>1 DEF Requests, SettleRequests
  <2>3. Target(cycle[p], s) \in SUBSET Gangs
    BY <2>1 DEF Target
  <2>4. QED
    BY <1>6, <2>2, <2>3, StartType DEF StartSettle
<1>7. QED
  BY <1>1, <1>2, <1>3, <1>4, <1>5, <1>6 DEF Begin

\* Every reachable state is well typed: what an invocation holds is what the
\* tables store, and every commit writes items of the stored types.
THEOREM TypeCorrect == Spec => []TypeOK
<1>1. Init => TypeOK
  BY InitType
<1>2. TypeOK /\ [Next]_vars => TypeOK'
  <2>1. ASSUME TypeOK, NEW i \in Invocations, NEW g \in Gangs,
               ReadAccount(i, g)
        PROVE  TypeOK'
    BY <2>1 DEF TypeOK, ReadAccount, stored
  <2>2. ASSUME TypeOK, NEW i \in Invocations, Abandon(i)
        PROVE  TypeOK'
    BY <2>2, FinishType DEF TypeOK, Abandon, stored
  <2>3. ASSUME TypeOK, NEW i \in Invocations, Commit(i)
        PROVE  TypeOK'
    BY <2>3, CashType, AllocateType, AttendanceType, GenerateType,
       ReopenType, SettleType DEF Commit
  <2>4. ASSUME TypeOK, UNCHANGED vars
        PROVE  TypeOK'
    BY <2>4 DEF TypeOK, vars
  <2>5. QED
    BY <2>1, <2>2, <2>3, <2>4, BeginType, QueryType DEF Next
<1>3. QED
  BY <1>1, <1>2, PTL DEF Spec

-----------------------------------------------------------------------------
(* What the account operators change, and what they leave alone.           *)

LEMMA GivenFields ==
  ASSUME NEW a \in Accounts, NEW n \in Int
  PROVE  LET b == Given(a, n)
         IN  /\ b.version = a.version + 1 /\ b.given = a.given + n
             /\ b.returned = a.returned /\ b.earned = a.earned /\ b.reserved = a.reserved
             /\ b.recovered = a.recovered /\ b.paid = a.paid
BY DEF Accounts, Given, Bump

LEMMA ReturnedFields ==
  ASSUME NEW a \in Accounts, NEW n \in Int
  PROVE  LET b == Returned(a, n)
         IN  /\ b.version = a.version + 1 /\ b.returned = a.returned + n
             /\ b.given = a.given /\ b.earned = a.earned /\ b.reserved = a.reserved
             /\ b.recovered = a.recovered /\ b.paid = a.paid
BY DEF Accounts, Returned, Bump

LEMMA EarnedFields ==
  ASSUME NEW a \in Accounts, NEW n \in Int
  PROVE  LET b == Earned(a, n)
         IN  /\ b.version = a.version + 1 /\ b.earned = a.earned + n
             /\ b.given = a.given /\ b.returned = a.returned /\ b.reserved = a.reserved
             /\ b.recovered = a.recovered /\ b.paid = a.paid
BY DEF Accounts, Earned, Bump

LEMMA ReservedFields ==
  ASSUME NEW a \in Accounts, NEW n \in Int
  PROVE  LET b == Reserved(a, n)
         IN  /\ b.version = a.version + 1 /\ b.reserved = a.reserved + n
             /\ b.given = a.given /\ b.returned = a.returned /\ b.earned = a.earned
             /\ b.recovered = a.recovered /\ b.paid = a.paid
BY DEF Accounts, Reserved, Bump

LEMMA ReleasedFields ==
  ASSUME NEW a \in Accounts, NEW n \in Int
  PROVE  LET b == Released(a, n)
         IN  /\ b.version = a.version + 1 /\ b.reserved = a.reserved - n
             /\ b.given = a.given /\ b.returned = a.returned /\ b.earned = a.earned
             /\ b.recovered = a.recovered /\ b.paid = a.paid
BY DEF Accounts, Released, Bump

LEMMA SettledFields ==
  ASSUME NEW a \in Accounts, NEW n \in Int, NEW m \in Int
  PROVE  LET b == Settled(a, n, m)
         IN  /\ b.version = a.version + 1 /\ b.given = a.given
             /\ b.returned = a.returned /\ b.earned = a.earned
             /\ b.reserved = a.reserved - n
             /\ b.recovered = a.recovered + n /\ b.paid = a.paid + m
BY DEF Accounts, Settled, Bump

\* A fresh snapshot is the stored account.
LEMMA FreshAccounts ==
  ASSUME AccountSnapshots, NEW i \in Invocations, NEW G \in SUBSET Gangs,
         Fresh(i, G)
  PROVE  \A g \in G : seen[i][g] = account[g]
BY DEF AccountSnapshots, Fresh

\* Every account a transaction writes advances its version, so a snapshot that
\* is still fresh afterwards was not written.
LEMMA SnapshotsAfterCommit ==
  ASSUME TypeOK, AccountSnapshots, NEW i \in Invocations, Finish(i),
         \A g \in Gangs : \/ account'[g] = account[g]
                          \/ account'[g].version = account[g].version + 1
  PROVE  AccountSnapshots'
<1> SUFFICES ASSUME NEW g \in Gangs
             PROVE  /\ account'[g].version = 0 => account'[g] = NoAccount
                    /\ \A j \in Invocations :
                         /\ seen'[j][g].version <= account'[g].version
                         /\ seen'[j][g].version = account'[g].version
                              => seen'[j][g] = account'[g]
  BY DEF AccountSnapshots
<1>1. account[g].version \in Nat /\ NoAccount.version = 0
  BY DEF TypeOK, Accounts, NoAccount
<1>2. \A j \in Invocations : seen[j][g].version \in Nat
  BY DEF TypeOK, Accounts
<1>3. \A j \in Invocations : seen'[j][g] \in {seen[j][g], NoAccount}
  BY DEF TypeOK, Finish
<1>4. CASE account'[g] = account[g]
  BY <1>1, <1>2, <1>3, <1>4 DEF AccountSnapshots
<1>5. CASE account'[g].version = account[g].version + 1
  BY <1>1, <1>2, <1>3, <1>5 DEF AccountSnapshots
<1>6. QED
  BY <1>4, <1>5

-----------------------------------------------------------------------------
(* Parts of the invariant that a step leaves alone.                        *)

LEMMA CashKept ==
  ASSUME CashTotals, UNCHANGED cashEntry,
         \A g \in Gangs : /\ account'[g].given = account[g].given
                          /\ account'[g].returned = account[g].returned
  PROVE  CashTotals'
<1>1. \A op, g : CashOf(op, g)' = CashOf(op, g)
  BY DEF CashOf
<1>2. QED
  BY <1>1 DEF CashTotals

LEMMA WagesKept ==
  ASSUME WageTotals, UNCHANGED << daily, wages >>,
         \A g \in Gangs : account'[g].earned = account[g].earned
  PROVE  WageTotals'
<1>1. /\ \A p, g : WageOf(p, g)' = WageOf(p, g)
      /\ \A g : EarnedOf(g)' = EarnedOf(g)
  BY DEF WageOf, EarnedOf
<1>2. QED
  BY <1>1 DEF WageTotals

LEMMA RegistersKept ==
  ASSUME RegisterTotals, UNCHANGED cycle,
         \A g \in Gangs : /\ account'[g].reserved = account[g].reserved
                          /\ account'[g].recovered = account[g].recovered
                          /\ account'[g].paid = account[g].paid
  PROVE  RegisterTotals'
<1>1. \A g : /\ ReservedOf(g)' = ReservedOf(g)
             /\ RecoveredOf(g)' = RecoveredOf(g)
             /\ PaidOf(g)' = PaidOf(g)
  BY DEF ReservedOf, RecoveredOf, PaidOf, Net
<1>2. QED
  BY <1>1 DEF RegisterTotals

\* Other invocations keep what they hold when one finishes.
LEMMA OthersKept ==
  ASSUME TypeOK, NEW i \in Invocations, Finish(i)
  PROVE  \A j \in Invocations : req'[j].op # "idle" => req'[j] = req[j]
BY DEF Finish, TypeOK, Idle

LEMMA SourceSnapshotsKept ==
  ASSUME DailySnapshots, TotalSnapshots, UNCHANGED << daily, wages, revision >>,
         \A j \in Invocations : req'[j].op # "idle" => req'[j] = req[j]
  PROVE  DailySnapshots' /\ TotalSnapshots'
<1>1. DailySnapshots'
  BY DEF DailySnapshots
<1>2. TotalSnapshots'
  BY DEF TotalSnapshots, Recorded
<1>3. QED
  BY <1>1, <1>2

LEMMA RegisterPartsKept ==
  ASSUME RegistersSound, RegisterSnapshots, EntriesSound, SettledOnce,
         UNCHANGED payrollVars,
         \A j \in Invocations : req'[j].op # "idle" => req'[j] = req[j]
  PROVE  /\ RegistersSound' /\ RegisterSnapshots'
         /\ EntriesSound' /\ SettledOnce'
<1>1. RegistersSound' /\ EntriesSound' /\ SettledOnce'
  BY DEF RegistersSound, EntriesSound, SettledOnce, payrollVars
<1>2. RegisterSnapshots'
  BY DEF RegisterSnapshots, payrollVars
<1>3. QED
  BY <1>1, <1>2

LEMMA CurrentKept ==
  ASSUME SnapshotCurrent, UNCHANGED << cycle, daily, wages >>
  PROVE  SnapshotCurrent'
BY DEF SnapshotCurrent, Recorded

-----------------------------------------------------------------------------
(* Each commit preserves the invariant.                                    *)

LEMMA CashStep ==
  ASSUME IInv, NEW i \in Invocations, CommitCash(i)
  PROVE  IInv'
<1> DEFINE r == req[i]
           old == account[r.gang]
           new == IF r.op = "gang_advance" THEN Given(old, r.amount)
                                           ELSE Returned(old, r.amount)
<1>0. /\ TypeOK /\ AccountSnapshots /\ DailySnapshots /\ TotalSnapshots
      /\ RegistersSound /\ RegisterSnapshots /\ EntriesSound /\ CashTotals /\ WageTotals
      /\ RegisterTotals /\ AdvanceCovered /\ SnapshotCurrent /\ SettledOnce
  BY DEF IInv
<1>1. r \in CashRequests
  BY <1>0, RequestKinds DEF CommitCash, Unused
<1>2. /\ r.op \in {"gang_advance", "gang_advance_return"}
      /\ r.gang \in Gangs /\ r.id \in CashIds /\ r.amount \in Nat
      /\ old \in Accounts
  BY <1>0, <1>1 DEF CashRequests, TypeOK
<1>3. seen[i][r.gang] = old
  BY <1>0, <1>2, FreshAccounts DEF CommitCash, Unused
<1>4. /\ r.op = "gang_advance_return" => r.amount <= Available(old)
      /\ cashEntry[r.id] = NoCash
      /\ cashEntry' = [cashEntry EXCEPT ![r.id] =
                         [op |-> r.op, gang |-> r.gang, amount |-> r.amount]]
      /\ account' = [account EXCEPT ![r.gang] = new]
      /\ Finish(i)
      /\ UNCHANGED << rosterVars, payrollVars >>
  BY <1>3 DEF CommitCash, Unused
<1>5. /\ account'[r.gang] = new
      /\ \A g \in Gangs : g # r.gang => account'[g] = account[g]
  BY <1>0, <1>2, <1>4 DEF TypeOK
<1>6. /\ new.version = old.version + 1
      /\ new.earned = old.earned /\ new.reserved = old.reserved
      /\ new.recovered = old.recovered /\ new.paid = old.paid
      /\ new.given = old.given
           + (IF r.op = "gang_advance" THEN r.amount ELSE 0)
      /\ new.returned = old.returned
           + (IF r.op = "gang_advance_return" THEN r.amount ELSE 0)
  <2>1. /\ old.given \in Nat /\ old.returned \in Nat /\ r.amount \in Int
    BY <1>2 DEF Accounts
  <2>2. CASE r.op = "gang_advance"
    <3>1. new = Given(old, r.amount)
      BY <2>2
    <3>2. QED
      BY <1>2, <2>1, <2>2, <3>1, GivenFields
  <2>3. CASE r.op = "gang_advance_return"
    <3>1. new = Returned(old, r.amount)
      BY <2>3
    <3>2. QED
      BY <1>2, <2>1, <2>3, <3>1, ReturnedFields
  <2>4. QED
    BY <1>2, <2>2, <2>3
<1>7. TypeOK'
  BY <1>0, CashType
<1>8. AccountSnapshots'
  BY <1>0, <1>4, <1>5, <1>6, SnapshotsAfterCommit, Zenon
<1>9. DailySnapshots' /\ TotalSnapshots' /\ SnapshotCurrent'
  BY <1>0, <1>4, OthersKept, SourceSnapshotsKept, CurrentKept
     DEF rosterVars, payrollVars
<1>10. /\ RegistersSound' /\ RegisterSnapshots'
       /\ EntriesSound' /\ SettledOnce'
  BY <1>0, <1>4, OthersKept, RegisterPartsKept
<1>11. WageTotals' /\ RegisterTotals'
  BY <1>0, <1>4, <1>5, <1>6, WagesKept, RegistersKept, Zenon
     DEF rosterVars, payrollVars
<1>12. AdvanceCovered'
  <2>1. \A g \in Gangs : account[g] \in Accounts
    BY <1>0 DEF TypeOK
  <2>2. old.given \in Nat /\ old.returned \in Nat /\ old.recovered \in Int
        /\ old.reserved \in Int
    BY <1>2 DEF Accounts
  <2>3. new.returned + new.recovered + new.reserved <= new.given
    BY <1>0, <1>2, <1>4, <1>6, <2>2 DEF AdvanceCovered, Available
  <2>4. QED
    BY <1>0, <1>5, <2>3 DEF AdvanceCovered
<1>13. CashTotals'
  <2> SUFFICES ASSUME NEW g \in Gangs
               PROVE  /\ IsTotal(CashIds, CashOf("gang_advance", g)',
                                 account'[g].given)
                      /\ IsTotal(CashIds, CashOf("gang_advance_return", g)',
                                 account'[g].returned)
    BY DEF CashTotals
  <2>1. \A op \in {"gang_advance", "gang_advance_return"} :
          /\ CashOf(op, g) \in [CashIds -> Nat]
          /\ CashOf(op, g)[r.id] = 0
          /\ CashOf(op, g)' \in [CashIds -> Nat]
          /\ CashOf(op, g)'[r.id] = IF op = r.op /\ g = r.gang
                                    THEN r.amount ELSE 0
          /\ \A id \in CashIds \ {r.id} : CashOf(op, g)'[id] = CashOf(op, g)[id]
    <3>1. /\ cashEntry \in [CashIds -> CashActions \cup {NoCash}]
          /\ cashEntry' \in [CashIds -> CashActions \cup {NoCash}]
      BY <1>0, <1>7 DEF TypeOK
    <3>2. \A x \in CashActions \cup {NoCash} : x = NoCash \/ x.amount \in Nat
      BY DEF CashActions
    <3>3. NoCash.op \notin {"gang_advance", "gang_advance_return"}
      BY DEF NoCash
    <3>4. /\ cashEntry'[r.id].op = r.op /\ cashEntry'[r.id].gang = r.gang
          /\ cashEntry'[r.id].amount = r.amount
          /\ \A id \in CashIds \ {r.id} : cashEntry'[id] = cashEntry[id]
      BY <1>2, <1>4, <3>1
    <3>5. ASSUME NEW op \in {"gang_advance", "gang_advance_return"}
          PROVE  /\ CashOf(op, g) \in [CashIds -> Nat]
                 /\ CashOf(op, g)[r.id] = 0
      BY <1>2, <1>4, <3>1, <3>2, <3>3 DEF CashOf
    <3>6. ASSUME NEW op \in {"gang_advance", "gang_advance_return"}
          PROVE  CashOf(op, g)' \in [CashIds -> Nat]
      BY <3>1, <3>2, <3>3 DEF CashOf
    <3>7. ASSUME NEW op \in {"gang_advance", "gang_advance_return"}
          PROVE  /\ CashOf(op, g)'[r.id] = IF op = r.op /\ g = r.gang
                                           THEN r.amount ELSE 0
                 /\ \A id \in CashIds \ {r.id} :
                      CashOf(op, g)'[id] = CashOf(op, g)[id]
      BY <1>2, <3>4 DEF CashOf
    <3>8. QED
      BY <3>5, <3>6, <3>7
  <2>2. /\ account[g].given \in Nat /\ account[g].returned \in Nat
    BY <1>0 DEF TypeOK, Accounts
  <2>3. /\ account'[g].given = account[g].given - 0
             + CashOf("gang_advance", g)'[r.id]
        /\ account'[g].returned = account[g].returned - 0
             + CashOf("gang_advance_return", g)'[r.id]
    BY <1>2, <1>5, <1>6, <2>1, <2>2
  <2>4. /\ IsTotal(CashIds, CashOf("gang_advance", g), account[g].given)
        /\ IsTotal(CashIds, CashOf("gang_advance_return", g),
                   account[g].returned)
    BY <1>0 DEF CashTotals
  <2>5. IsTotal(CashIds, CashOf("gang_advance", g)', account'[g].given)
    BY <1>2, <2>1, <2>2, <2>3, <2>4, TotalUpdate, FiniteAssumption
  <2>6. IsTotal(CashIds, CashOf("gang_advance_return", g)',
                account'[g].returned)
    BY <1>2, <2>1, <2>2, <2>3, <2>4, TotalUpdate, FiniteAssumption
  <2>7. QED
    BY <2>5, <2>6
<1>14. QED
  BY <1>7, <1>8, <1>9, <1>10, <1>11, <1>12, <1>13 DEF IInv

LEMMA AllocateStep ==
  ASSUME IInv, NEW i \in Invocations, CommitAllocate(i)
  PROVE  IInv'
<1>0. /\ TypeOK /\ AccountSnapshots /\ DailySnapshots /\ TotalSnapshots
      /\ RegistersSound /\ RegisterSnapshots /\ EntriesSound /\ CashTotals /\ WageTotals
      /\ RegisterTotals /\ AdvanceCovered /\ SnapshotCurrent /\ SettledOnce
  BY DEF IInv
<1>1. /\ Finish(i)
      /\ UNCHANGED << account, daily, wages, revision, cashEntry, payrollVars >>
  BY DEF CommitAllocate
<1>2. TypeOK' /\ AccountSnapshots'
  BY <1>0, <1>1, AllocateType, SnapshotsAfterCommit
<1>3. DailySnapshots' /\ TotalSnapshots' /\ SnapshotCurrent'
  BY <1>0, <1>1, OthersKept, SourceSnapshotsKept, CurrentKept DEF payrollVars
<1>4. /\ RegistersSound' /\ RegisterSnapshots'
      /\ EntriesSound' /\ SettledOnce'
  BY <1>0, <1>1, OthersKept, RegisterPartsKept
<1>5. CashTotals' /\ WageTotals' /\ RegisterTotals'
  BY <1>0, <1>1, CashKept, WagesKept, RegistersKept DEF payrollVars
<1>6. AdvanceCovered'
  BY <1>0, <1>1 DEF AdvanceCovered
<1>7. QED
  BY <1>2, <1>3, <1>4, <1>5, <1>6 DEF IInv

LEMMA AttendanceStep ==
  ASSUME IInv, NEW i \in Invocations, CommitAttendance(i)
  PROVE  IInv'
<1> DEFINE r == req[i]
           g == r.gang
           p == r.project
           d == r.day
           old == account[g]
           delta == r.wage - r.before.wage
<1>0. /\ TypeOK /\ AccountSnapshots /\ DailySnapshots /\ TotalSnapshots
      /\ RegistersSound /\ RegisterSnapshots /\ EntriesSound /\ CashTotals /\ WageTotals
      /\ RegisterTotals /\ AdvanceCovered /\ SnapshotCurrent /\ SettledOnce
  BY DEF IInv
<1>1. r \in AttendanceRequests
  BY <1>0, RequestKinds, Zenon DEF CommitAttendance, Delta, Ready
<1>2. /\ g \in Gangs /\ p \in Projects /\ d \in Days /\ r.wage \in Nat
      /\ r.before \in Dailies /\ old \in Accounts
  BY <1>0, <1>1 DEF AttendanceRequests, TypeOK
<1>3. seen[i][g] = old
  BY <1>0, <1>2, FreshAccounts, Zenon DEF CommitAttendance, Delta
<1>4. /\ daily[p][g][d].version = r.before.version
      /\ cycle[p] = NoCycle
      /\ daily' = [daily EXCEPT ![p][g][d] =
                     [wage |-> r.wage, version |-> r.before.version + 1]]
      /\ wages' = [wages EXCEPT ![p][g] = @ + delta]
      /\ revision' = [revision EXCEPT ![p] = @ + 1]
      /\ account' = [account EXCEPT ![g] = Earned(old, delta)]
      /\ Finish(i)
      /\ UNCHANGED << cashEntry, payrollVars >>
  BY <1>3, Zenon DEF CommitAttendance, Delta
<1>5. r.before = daily[p][g][d]
  BY <1>0, <1>4, Zenon DEF DailySnapshots, CommitAttendance, Ready
<1>6. /\ account'[g] = Earned(old, delta)
      /\ \A h \in Gangs : h # g => account'[h] = account[h]
  BY <1>0, <1>2, <1>4 DEF TypeOK
<1>7. delta \in Int /\ r.before.wage \in Nat
  BY <1>2 DEF Dailies
<1>8. \A h \in Gangs :
        /\ account'[h].given = account[h].given
        /\ account'[h].returned = account[h].returned
        /\ account'[h].reserved = account[h].reserved
        /\ account'[h].recovered = account[h].recovered
        /\ account'[h].paid = account[h].paid
        /\ \/ account'[h] = account[h]
           \/ account'[h].version = account[h].version + 1
  BY <1>2, <1>6, <1>7, EarnedFields
<1>9. TypeOK' /\ AccountSnapshots'
  BY <1>0, <1>4, <1>8, AttendanceType, SnapshotsAfterCommit, Zenon
<1>10. /\ RegistersSound' /\ RegisterSnapshots'
       /\ EntriesSound' /\ SettledOnce'
  BY <1>0, <1>4, OthersKept, RegisterPartsKept
<1>11. CashTotals' /\ RegisterTotals'
  BY <1>0, <1>4, <1>8, CashKept, RegistersKept, Zenon DEF payrollVars
<1>12. AdvanceCovered'
  BY <1>0, <1>8 DEF AdvanceCovered
<1>13. /\ daily'[p][g][d] = [wage |-> r.wage, version |-> r.before.version + 1]
       /\ \A q \in Projects, h \in Gangs, e \in Days :
            q # p \/ h # g \/ e # d => daily'[q][h][e] = daily[q][h][e]
  <2> DEFINE item == [wage |-> r.wage, version |-> r.before.version + 1]
  <2>1. daily' = [daily EXCEPT ![p][g][d] = item]
    BY <1>4
  <2> HIDE DEF item
  <2>2. daily \in [Projects -> [Gangs -> [Days -> Dailies]]]
    BY <1>0 DEF TypeOK
  <2>3. QED
    BY <1>2, <2>1, <2>2 DEF item
<1>14. /\ wages'[p][g] = wages[p][g] + delta
       /\ \A q \in Projects, h \in Gangs :
            q # p \/ h # g => wages'[q][h] = wages[q][h]
  BY <1>0, <1>2, <1>4 DEF TypeOK
<1>15. DailySnapshots'
  <2> SUFFICES ASSUME NEW j \in Invocations, req'[j].op = "gang_attendance"
               PROVE  LET now == daily'[req[j].project][req[j].gang][req[j].day]
                      IN  /\ req[j].before.version <= now.version
                          /\ req[j].before.version = now.version
                               => req[j].before = now
    BY <1>0, <1>4, OthersKept, Zenon DEF DailySnapshots
  <2>1. req'[j] = req[j]
    BY <1>0, <1>4, OthersKept
  <2>2. req[j] \in AttendanceRequests
    BY <1>0, <2>1, RequestKinds
  <2> DEFINE q == req[j].project
             h == req[j].gang
             e == req[j].day
  <2>3. /\ q \in Projects /\ h \in Gangs /\ e \in Days
        /\ req[j].before.version \in Nat
        /\ daily[q][h][e].version \in Nat
    BY <1>0, <2>2 DEF AttendanceRequests, Dailies, TypeOK
  <2>4. /\ req[j].before.version <= daily[q][h][e].version
        /\ req[j].before.version = daily[q][h][e].version
             => req[j].before = daily[q][h][e]
    BY <1>0, <2>1 DEF DailySnapshots
  <2>5. CASE q = p /\ h = g /\ e = d
    <3>1. daily'[q][h][e].version = daily[q][h][e].version + 1
      <4>1. daily'[p][g][d].version = r.before.version + 1
        BY <1>13
      <4>2. daily[p][g][d].version = r.before.version
        BY <1>4
      <4>3. QED
        BY <2>5, <4>1, <4>2
    <3>2. QED
      BY <2>3, <2>4, <3>1
  <2>6. CASE q # p \/ h # g \/ e # d
    BY <1>13, <2>3, <2>4, <2>6
  <2>7. QED
    BY <2>5, <2>6
<1>16. TotalSnapshots'
  <2> SUFFICES ASSUME NEW j \in Invocations, req'[j].op = "generate"
               PROVE  /\ req'[j].revision <= revision'[req'[j].project]
                      /\ /\ req'[j].queried
                         /\ req'[j].revision = revision'[req'[j].project]
                         => /\ req'[j].members = Recorded(req[j].project)'
                            /\ req'[j].gross = wages'[req'[j].project]
    BY DEF TotalSnapshots, Recorded
  <2>1. req'[j] = req[j]
    BY <1>0, <1>4, OthersKept
  <2>2. req[j] \in GenerateRequests
    BY <1>0, <2>1, RequestKinds
  <2> DEFINE q == req[j].project
  <2>3. /\ q \in Projects /\ req[j].revision \in Nat /\ revision[q] \in Nat
    BY <1>0, <2>2 DEF GenerateRequests, TypeOK
  <2>4. req[j].revision <= revision[q]
    BY <1>0, <2>1 DEF TotalSnapshots
  <2>5. CASE q = p
    <3>1. revision'[q] = revision[q] + 1
      BY <1>0, <1>4, <2>3, <2>5 DEF TypeOK
    <3>2. QED
      BY <2>1, <2>3, <2>4, <3>1
  <2>6. CASE q # p
    <3>1. revision'[q] = revision[q] /\ wages'[q] = wages[q]
          /\ daily'[q] = daily[q]
      BY <1>0, <1>4, <2>3, <2>6 DEF TypeOK
    <3>2. QED
      BY <1>0, <2>1, <3>1 DEF TotalSnapshots, Recorded
  <2>7. QED
    BY <2>5, <2>6
<1>17. SnapshotCurrent'
  <2> SUFFICES ASSUME NEW q \in Projects, cycle[q] # NoCycle
               PROVE  /\ cycle[q].members = Recorded(q)'
                      /\ \A h \in cycle[q].members :
                           cycle[q].gross[h] = wages'[q][h]
    BY <1>4, Zenon DEF SnapshotCurrent, payrollVars, NoCycle
  <2>1. q # p
    BY <1>4
  <2>2. wages'[q] = wages[q] /\ daily'[q] = daily[q]
    BY <1>0, <1>4, <2>1 DEF TypeOK
  <2>3. QED
    BY <1>0, <2>2 DEF SnapshotCurrent, Recorded
<1>18. WageTotals'
  <2>1. ASSUME NEW h \in Gangs, NEW q \in Projects
        PROVE  IsTotal(Days, WageOf(q, h)', wages'[q][h])
    <3>1. IsTotal(Days, WageOf(q, h), wages[q][h])
      BY <1>0 DEF WageTotals
    <3>2. WageOf(q, h) \in [Days -> Nat] /\ wages[q][h] \in Int
      BY <1>0 DEF WageOf, TypeOK, Dailies
    <3>3. CASE q = p /\ h = g
      <4>1. WageOf(q, h)' \in [Days -> Nat]
        BY <1>9 DEF WageOf, TypeOK, Dailies
      <4>2. \A e \in Days \ {d} : WageOf(q, h)'[e] = WageOf(q, h)[e]
        BY <1>13 DEF WageOf
      <4>3. wages'[q][h] = wages[q][h] - WageOf(q, h)[d] + WageOf(q, h)'[d]
        <5>1. WageOf(q, h)[d] = r.before.wage
          BY <1>2, <1>5, <3>3 DEF WageOf
        <5>2. WageOf(q, h)'[d] = r.wage
          BY <1>2, <1>13, <3>3 DEF WageOf
        <5>3. wages'[q][h] = wages[q][h] + (r.wage - r.before.wage)
          BY <1>14, <3>3
        <5>4. QED
          BY <1>2, <1>7, <3>2, <5>1, <5>2, <5>3
      <4>4. QED
        BY <1>2, <3>1, <3>2, <4>1, <4>2, <4>3, TotalNat, TotalUpdate,
           FiniteAssumption
    <3>4. CASE q # p \/ h # g
      <4>1. WageOf(q, h)' = WageOf(q, h)
        BY <1>13, <3>4 DEF WageOf
      <4>2. QED
        BY <1>14, <3>1, <3>4, <4>1
    <3>5. QED
      BY <3>3, <3>4
  <2>2. ASSUME NEW h \in Gangs
        PROVE  IsTotal(Projects, EarnedOf(h)', account'[h].earned)
    <3>1. IsTotal(Projects, EarnedOf(h), account[h].earned)
      BY <1>0 DEF WageTotals
    <3>2. account[h].earned \in Int
      BY <1>0 DEF TypeOK, Accounts
    <3>3. CASE h = g
      <4>1. EarnedOf(h) \in [Projects -> Nat]
        <5>1. \A q \in Projects : wages[q][h] \in Nat
          <6>1. TAKE q \in Projects
          <6>2. WageOf(q, h) \in [Days -> Nat]
            BY <1>0 DEF WageOf, TypeOK, Dailies
          <6>3. IsTotal(Days, WageOf(q, h), wages[q][h])
            BY <1>0 DEF WageTotals
          <6>4. QED
            BY <6>2, <6>3, TotalNat, FiniteAssumption
        <5>2. QED
          BY <5>1 DEF EarnedOf
      <4>2. EarnedOf(h)' \in [Projects -> Nat]
        <5>1. \A q \in Projects : WageOf(q, h)' \in [Days -> Nat]
          BY <1>9 DEF WageOf, TypeOK, Dailies
        <5>2. \A q \in Projects : wages'[q][h] \in Nat
          BY <2>1, <5>1, TotalNat, FiniteAssumption
        <5>3. QED
          BY <5>2 DEF EarnedOf
      <4>3. \A q \in Projects \ {p} : EarnedOf(h)'[q] = EarnedOf(h)[q]
        BY <1>14 DEF EarnedOf
      <4>4. account'[h].earned = account[h].earned - EarnedOf(h)[p]
                                  + EarnedOf(h)'[p]
        <5>1. account'[h].earned = account[h].earned + delta
          BY <1>2, <1>6, <1>7, <3>3, EarnedFields
        <5>2. EarnedOf(h)'[p] = EarnedOf(h)[p] + delta
          BY <1>2, <1>14, <3>3 DEF EarnedOf
        <5>3. EarnedOf(h)[p] \in Int
          BY <1>2, <4>1
        <5>4. QED
          BY <1>7, <3>2, <5>1, <5>2, <5>3
      <4>5. QED
        BY <1>2, <3>1, <3>2, <4>1, <4>2, <4>3, <4>4, TotalNat, TotalUpdate,
           FiniteAssumption
    <3>4. CASE h # g
      <4>1. EarnedOf(h)' = EarnedOf(h)
        BY <1>14, <3>4 DEF EarnedOf
      <4>2. QED
        BY <1>6, <3>1, <3>4, <4>1
    <3>5. QED
      BY <3>3, <3>4
  <2>3. QED
    BY <2>1, <2>2 DEF WageTotals
<1>19. QED
  BY <1>9, <1>10, <1>11, <1>12, <1>15, <1>16, <1>17, <1>18 DEF IInv

\* Entries contribute natural numbers to the totals of an account.
LEMMA ContributionTypes ==
  ASSUME TypeOK, EntriesSound, NEW g \in Gangs
  PROVE  /\ ReservedOf(g) \in [Projects -> Nat]
         /\ RecoveredOf(g) \in [Projects -> Nat]
         /\ PaidOf(g) \in [Projects -> Nat]
<1>1. ASSUME NEW p \in Projects
      PROVE  /\ cycle[p].recovery[g] \in Nat /\ Net(cycle[p], g) \in Nat
  <2>1. cycle[p].recovery[g] \in Int /\ cycle[p].gross[g] \in Int
    BY DEF TypeOK, Cycles
  <2>2. QED
    BY <2>1 DEF EntriesSound, Net
<1>2. QED
  BY <1>1 DEF ReservedOf, RecoveredOf, PaidOf

\* A step that changes one register and moves its accounts' balances by the
\* difference keeps the totals.
LEMMA RegisterMoves ==
  ASSUME TypeOK, TypeOK', EntriesSound, EntriesSound', RegisterTotals,
         NEW p \in Projects,
         \A q \in Projects \ {p} : cycle'[q] = cycle[q],
         \A g \in Gangs :
           /\ account'[g].reserved
                = account[g].reserved - ReservedOf(g)[p] + ReservedOf(g)'[p]
           /\ account'[g].recovered
                = account[g].recovered - RecoveredOf(g)[p] + RecoveredOf(g)'[p]
           /\ account'[g].paid
                = account[g].paid - PaidOf(g)[p] + PaidOf(g)'[p]
  PROVE  RegisterTotals'
<1> SUFFICES ASSUME NEW g \in Gangs
             PROVE  /\ IsTotal(Projects, ReservedOf(g)', account'[g].reserved)
                    /\ IsTotal(Projects, RecoveredOf(g)', account'[g].recovered)
                    /\ IsTotal(Projects, PaidOf(g)', account'[g].paid)
  BY DEF RegisterTotals
<1>1. /\ ReservedOf(g) \in [Projects -> Nat]
      /\ RecoveredOf(g) \in [Projects -> Nat]
      /\ PaidOf(g) \in [Projects -> Nat]
  BY ContributionTypes
<1>2. /\ ReservedOf(g)' \in [Projects -> Nat]
      /\ RecoveredOf(g)' \in [Projects -> Nat]
      /\ PaidOf(g)' \in [Projects -> Nat]
  <2>1. ASSUME NEW q \in Projects
        PROVE  /\ cycle'[q].recovery[g] \in Nat /\ Net(cycle[q], g)' \in Nat
    <3>1. cycle'[q].recovery[g] \in Int /\ cycle'[q].gross[g] \in Int
      BY DEF TypeOK, Cycles
    <3>2. QED
      BY <3>1 DEF EntriesSound, Net
  <2>2. QED
    BY <2>1 DEF ReservedOf, RecoveredOf, PaidOf
<1>3. \A q \in Projects \ {p} : /\ ReservedOf(g)'[q] = ReservedOf(g)[q]
                               /\ RecoveredOf(g)'[q] = RecoveredOf(g)[q]
                               /\ PaidOf(g)'[q] = PaidOf(g)[q]
  BY DEF ReservedOf, RecoveredOf, PaidOf, Net
<1>4. /\ IsTotal(Projects, ReservedOf(g), account[g].reserved)
      /\ IsTotal(Projects, RecoveredOf(g), account[g].recovered)
      /\ IsTotal(Projects, PaidOf(g), account[g].paid)
  BY DEF RegisterTotals
<1>5. /\ account[g].reserved \in Nat /\ account[g].recovered \in Nat
      /\ account[g].paid \in Nat
  BY <1>1, <1>4, TotalNat, FiniteAssumption
<1>6. IsTotal(Projects, ReservedOf(g)', account'[g].reserved)
  <2>1. account'[g].reserved
          = account[g].reserved - ReservedOf(g)[p] + ReservedOf(g)'[p]
    OBVIOUS
  <2>2. QED
    BY <2>1, <1>1, <1>2, <1>3, <1>4, <1>5, TotalUpdate, FiniteAssumption
<1>7. IsTotal(Projects, RecoveredOf(g)', account'[g].recovered)
  BY <1>1, <1>2, <1>3, <1>4, <1>5, TotalUpdate, FiniteAssumption
<1>8. IsTotal(Projects, PaidOf(g)', account'[g].paid)
  BY <1>1, <1>2, <1>3, <1>4, <1>5, TotalUpdate, FiniteAssumption
<1>9. QED
  BY <1>6, <1>7, <1>8

LEMMA GenerateStep ==
  ASSUME IInv, NEW i \in Invocations, CommitGenerate(i)
  PROVE  IInv'
<1> DEFINE r == req[i]
           p == r.project
           G == r.members
           recovery == [g \in Gangs |-> IF g \in G
                                        THEN Recovery(seen[i][g], r.gross[g])
                                        ELSE 0]
           new == [id |-> nextId, status |-> "Pending", settlements |-> 0,
                   members |-> G, paid |-> {}, gross |-> r.gross,
                   recovery |-> recovery]
<1>0. /\ TypeOK /\ AccountSnapshots /\ DailySnapshots /\ TotalSnapshots
      /\ RegistersSound /\ RegisterSnapshots /\ EntriesSound /\ CashTotals /\ WageTotals
      /\ RegisterTotals /\ AdvanceCovered /\ SnapshotCurrent /\ SettledOnce
  BY DEF IInv
<1>1. r \in GenerateRequests
  BY <1>0, RequestKinds DEF CommitGenerate, Ready
<1>2. /\ p \in Projects /\ G \in SUBSET Gangs /\ r.gross \in [Gangs -> Int]
      /\ nextId \in Nat \ {0}
  BY <1>0, <1>1 DEF GenerateRequests, TypeOK
<1>3. /\ cycle[p] = NoCycle
      /\ cycle' = [cycle EXCEPT ![p] = new]
      /\ account' = [g \in Gangs |-> IF g \in G
                                     THEN Reserved(seen[i][g], recovery[g])
                                     ELSE account[g]]
      /\ nextId' = nextId + 1
      /\ Finish(i)
      /\ UNCHANGED << rosterVars, cashEntry, receipts >>
  BY DEF CommitGenerate
<1>4. \A g \in G : seen[i][g] = account[g]
  BY <1>0, <1>2, FreshAccounts DEF CommitGenerate
<1>5. G = Recorded(p) /\ r.gross = wages[p]
  BY <1>0 DEF TotalSnapshots, CommitGenerate, SourcesUnchanged, Ready
<1>6. \A g \in Gangs : r.gross[g] \in Nat
  <2>1. \A g \in Gangs : WageOf(p, g) \in [Days -> Nat]
    BY <1>0, <1>2 DEF WageOf, TypeOK, Dailies
  <2>2. \A g \in Gangs : IsTotal(Days, WageOf(p, g), r.gross[g])
    BY <1>0, <1>2, <1>5 DEF WageTotals
  <2>3. QED
    BY <2>1, <2>2, TotalNat, FiniteAssumption
<1>7. \A g \in Gangs : account[g] \in Accounts
  BY <1>0 DEF TypeOK
<1>8. ASSUME NEW g \in Gangs
      PROVE  /\ recovery[g] \in Nat /\ recovery[g] <= r.gross[g]
             /\ g \in G => recovery[g] <= Available(account[g])
             /\ g \notin G => recovery[g] = 0
  <2>1. CASE g \in G
    <3>1. recovery[g] = Recovery(account[g], r.gross[g])
      BY <1>4, <2>1
    <3>2. Available(account[g]) \in Nat
      BY <1>0, <1>7 DEF AdvanceCovered, Available, Accounts
    <3>3. QED
      BY <1>6, <2>1, <3>1, <3>2 DEF Recovery
  <2>2. CASE g \notin G
    BY <1>6, <2>2
  <2>3. QED
    BY <2>1, <2>2
<1>9. ASSUME NEW g \in Gangs
      PROVE  /\ account'[g].given = account[g].given
             /\ account'[g].returned = account[g].returned
             /\ account'[g].earned = account[g].earned
             /\ account'[g].recovered = account[g].recovered
             /\ account'[g].paid = account[g].paid
             /\ account'[g].reserved = account[g].reserved + recovery[g]
             /\ \/ account'[g] = account[g]
                \/ account'[g].version = account[g].version + 1
  <2>1. account[g].reserved \in Int
    BY <1>7 DEF Accounts
  <2>2. CASE g \in G
    <3>1. account'[g] = Reserved(account[g], recovery[g])
      BY <1>3, <1>4, <2>2
    <3>2. recovery[g] \in Int
      BY <1>8
    <3>3. QED
      BY <1>7, <3>1, <3>2, ReservedFields
  <2>3. CASE g \notin G
    BY <1>3, <1>8, <2>1, <2>3
  <2>4. QED
    BY <2>2, <2>3
<1>10. /\ cycle'[p] = new
       /\ \A q \in Projects \ {p} : cycle'[q] = cycle[q]
  BY <1>0, <1>2, <1>3 DEF TypeOK
<1>11. /\ cycle'[p].id = nextId /\ cycle'[p].status = "Pending"
       /\ cycle'[p].settlements = 0 /\ cycle'[p].paid = {}
       /\ cycle'[p].members = G /\ cycle'[p].gross = r.gross
       /\ cycle'[p].recovery = recovery
  BY <1>10
<1> HIDE DEF recovery, new
<1>12. TypeOK'
  BY <1>0, GenerateType
<1>13. AccountSnapshots'
  BY <1>0, <1>3, <1>9, SnapshotsAfterCommit
<1>14. DailySnapshots' /\ TotalSnapshots'
  BY <1>0, <1>3, OthersKept, SourceSnapshotsKept DEF rosterVars
<1>15. CashTotals' /\ WageTotals'
  BY <1>0, <1>3, <1>9, CashKept, WagesKept DEF rosterVars
<1>16. EntriesSound'
  <2> SUFFICES ASSUME NEW q \in Projects, NEW g \in Gangs
               PROVE  /\ cycle'[q].paid \subseteq cycle'[q].members
                      /\ 0 <= cycle'[q].recovery[g]
                      /\ cycle'[q].recovery[g] <= cycle'[q].gross[g]
    BY DEF EntriesSound
  <2>1. CASE q = p
    BY <1>8, <1>11, <2>1
  <2>2. CASE q # p
    BY <1>0, <1>10, <2>2 DEF EntriesSound
  <2>3. QED
    BY <2>1, <2>2
<1>17. RegistersSound'
  <2>1. ASSUME NEW q \in Projects
        PROVE  /\ cycle'[q].id < nextId'
               /\ cycle'[q].id = 0 => cycle'[q] = NoCycle
               /\ cycle'[q].status \in {"None", "Pending"} =>
                    cycle'[q].paid = {} /\ cycle'[q].settlements = 0
    <3>1. cycle[q].id \in Nat
      BY <1>0 DEF TypeOK, Cycles
    <3>2. CASE q = p
      BY <1>2, <1>3, <1>11, <3>2
    <3>3. CASE q # p
      BY <1>0, <1>2, <1>3, <1>10, <3>1, <3>3 DEF RegistersSound
    <3>4. QED
      BY <3>2, <3>3
  <2>2. ASSUME NEW q \in Projects, NEW s \in Projects,
               cycle'[q].id = cycle'[s].id, cycle'[q].id # 0
        PROVE  q = s
    <3>1. cycle[q].id < nextId /\ cycle[s].id < nextId
          /\ cycle[q].id \in Nat /\ cycle[s].id \in Nat
      BY <1>0 DEF RegistersSound, TypeOK, Cycles
    <3>2. QED
      BY <1>0, <1>2, <1>10, <1>11, <2>2, <3>1 DEF RegistersSound
  <2>3. \A x \in receipts' : 0 < x.cycle /\ x.cycle < nextId'
    <3>1. \A x \in receipts : x.cycle \in Nat
      BY <1>0 DEF TypeOK
    <3>2. QED
      BY <1>0, <1>2, <1>3, <3>1 DEF RegistersSound
  <2>4. QED
    BY <2>1, <2>2, <2>3 DEF RegistersSound
<1>18. RegisterSnapshots'
  <2> SUFFICES ASSUME NEW j \in Invocations, req'[j].op \in {"reopen", "settle"}
               PROVE  LET c == req[j].cycle
                          now == cycle'[req[j].project]
                      IN  /\ 0 < c.id /\ c.id < nextId'
                          /\ now.id = c.id => c.settlements <= now.settlements
                          /\ now.id = c.id /\ now.settlements = c.settlements
                               => now = c
                          /\ req[j].op = "reopen" => c.settlements = 0
                          /\ req[j].op = "settle" => req[j].selected
                               \in (c.members \ c.paid) \cup {"all"}
    BY <1>0, <1>3, OthersKept DEF RegisterSnapshots
  <2>1. req'[j] = req[j]
    BY <1>0, <1>3, OthersKept
  <2>2. req[j].cycle \in Cycles /\ req[j].project \in Projects
    BY <1>0, <2>1, RequestKinds DEF ReopenRequests, SettleRequests
  <2>3. req[j].cycle.id \in Nat
    BY <2>2 DEF Cycles
  <2>4. req[j].cycle.id < nextId
    BY <1>0, <2>1 DEF RegisterSnapshots
  <2>5. CASE req[j].project = p
    BY <1>0, <1>2, <1>3, <1>11, <2>1, <2>3, <2>4, <2>5 DEF RegisterSnapshots
  <2>6. CASE req[j].project # p
    BY <1>0, <1>2, <1>3, <1>10, <2>1, <2>2, <2>3, <2>4, <2>6
       DEF RegisterSnapshots
  <2>7. QED
    BY <2>5, <2>6
<1>19. AdvanceCovered'
  <2> SUFFICES ASSUME NEW g \in Gangs
               PROVE  account'[g].returned + account'[g].recovered
                        + account'[g].reserved <= account'[g].given
    BY DEF AdvanceCovered
  <2>1. /\ account[g].given \in Int /\ account[g].returned \in Int
        /\ account[g].recovered \in Int /\ account[g].reserved \in Int
    BY <1>7 DEF Accounts
  <2>2. recovery[g] \in Nat /\ recovery[g] <= Available(account[g])
    <3>1. CASE g \in G
      BY <1>8, <3>1
    <3>2. CASE g \notin G
      BY <1>0, <1>8, <2>1, <3>2 DEF AdvanceCovered, Available
    <3>3. QED
      BY <3>1, <3>2
  <2>3. QED
    <3>1. /\ account'[g].given = account[g].given
          /\ account'[g].returned = account[g].returned
          /\ account'[g].recovered = account[g].recovered
          /\ account'[g].reserved = account[g].reserved + recovery[g]
      BY <1>9
    <3>2. QED
      BY <2>1, <2>2, <3>1 DEF Available
<1>20. SnapshotCurrent'
  <2>2. daily' = daily /\ wages' = wages
    BY <1>3 DEF rosterVars
  <2>1. \A q : Recorded(q)' = Recorded(q)
    BY <2>2 DEF Recorded
  <2>3. ASSUME NEW q \in Projects, cycle'[q] # NoCycle
        PROVE  /\ cycle'[q].members = Recorded(q)
               /\ \A g \in cycle'[q].members : cycle'[q].gross[g] = wages[q][g]
    <3>1. CASE q = p
      BY <1>5, <1>11, <3>1
    <3>2. CASE q # p
      BY <1>0, <1>10, <2>3, <3>2 DEF SnapshotCurrent
    <3>3. QED
      BY <3>1, <3>2
  <2>4. QED
    BY <2>1, <2>2, <2>3 DEF SnapshotCurrent, NoCycle
<1>21. SettledOnce'
  <2>1. \A x \in receipts : x.cycle # nextId
    <3>1. \A x \in receipts : x.cycle \in Nat /\ x.cycle < nextId
      BY <1>0 DEF TypeOK, RegistersSound
    <3>2. QED
      BY <1>2, <3>1
  <2>2. ASSUME NEW q \in Projects
        PROVE  cycle'[q].paid = UNION {x.groups : x \in {y \in receipts :
                                                      y.cycle = cycle'[q].id}}
    <3>1. CASE q = p
      <4>1. {y \in receipts : y.cycle = cycle'[q].id} = {}
        BY <1>11, <2>1, <3>1
      <4>2. QED
        BY <1>11, <3>1, <4>1
    <3>2. CASE q # p
      BY <1>0, <1>10, <3>2 DEF SettledOnce
    <3>3. QED
      BY <3>1, <3>2
  <2>3. QED
    BY <1>0, <1>3, <2>2 DEF SettledOnce
<1>22. RegisterTotals'
  <2>1. ASSUME NEW g \in Gangs
        PROVE  /\ ReservedOf(g)[p] = 0 /\ ReservedOf(g)'[p] = recovery[g]
               /\ RecoveredOf(g)[p] = 0 /\ RecoveredOf(g)'[p] = 0
               /\ PaidOf(g)[p] = 0 /\ PaidOf(g)'[p] = 0
    <3>1. cycle[p].members = {} /\ cycle[p].paid = {}
      BY <1>3 DEF NoCycle
    <3>2. QED
      BY <1>2, <1>8, <1>11, <3>1 DEF ReservedOf, RecoveredOf, PaidOf
  <2>2. \A g \in Gangs : /\ account[g].recovered \in Int
                         /\ account[g].reserved \in Int
                         /\ account[g].paid \in Int
                         /\ recovery[g] \in Nat
    BY <1>7, <1>8 DEF Accounts
  <2>3. \A g \in Gangs :
           /\ account'[g].reserved
                = account[g].reserved - ReservedOf(g)[p] + ReservedOf(g)'[p]
           /\ account'[g].recovered
                = account[g].recovered - RecoveredOf(g)[p] + RecoveredOf(g)'[p]
           /\ account'[g].paid
                = account[g].paid - PaidOf(g)[p] + PaidOf(g)'[p]
    BY <1>9, <2>1, <2>2
  <2>4. QED
    BY <1>0, <1>2, <1>10, <1>12, <1>16, <2>3, RegisterMoves
<1>23. QED
  BY <1>12, <1>13, <1>14, <1>15, <1>16, <1>17, <1>18, <1>19, <1>20, <1>21,
     <1>22 DEF IInv

LEMMA ReopenStep ==
  ASSUME IInv, NEW i \in Invocations, CommitReopen(i)
  PROVE  IInv'
<1> DEFINE p == req[i].project
           c == req[i].cycle
           G == c.members
<1>0. /\ TypeOK /\ AccountSnapshots /\ DailySnapshots /\ TotalSnapshots
      /\ RegistersSound /\ RegisterSnapshots /\ EntriesSound /\ CashTotals /\ WageTotals
      /\ RegisterTotals /\ AdvanceCovered /\ SnapshotCurrent /\ SettledOnce
  BY DEF IInv
<1>1. req[i] \in ReopenRequests
  BY <1>0, RequestKinds DEF CommitReopen, Ready
<1>2. p \in Projects /\ c \in Cycles
  BY <1>1 DEF ReopenRequests
<1>3. /\ cycle[p].status = "Pending" /\ cycle[p].id = c.id
      /\ cycle' = [cycle EXCEPT ![p] = NoCycle]
      /\ account' = [g \in Gangs |-> IF g \in G
                       THEN Released(seen[i][g], c.recovery[g])
                       ELSE account[g]]
      /\ Finish(i)
      /\ UNCHANGED << rosterVars, cashEntry, receipts, nextId >>
  BY DEF CommitReopen
<1>4. cycle[p] = c /\ c.paid = {}
  <2>1. c.settlements = 0
    BY <1>0 DEF RegisterSnapshots, CommitReopen, Ready
  <2>2. cycle[p].settlements = 0 /\ cycle[p].paid = {}
    BY <1>0, <1>2, <1>3 DEF RegistersSound
  <2>3. QED
    BY <1>0, <1>3, <2>1, <2>2 DEF RegisterSnapshots, CommitReopen, Ready
<1>5. /\ G \in SUBSET Gangs
      /\ \A g \in Gangs : c.recovery[g] \in Nat /\ account[g] \in Accounts
  <2>1. G \in SUBSET Gangs /\ \A g \in Gangs : c.recovery[g] \in Int
    BY <1>2 DEF Cycles
  <2>2. \A g \in Gangs : 0 <= c.recovery[g]
    BY <1>0, <1>2, <1>4 DEF EntriesSound
  <2>3. QED
    BY <1>0, <2>1, <2>2 DEF TypeOK
<1>6. \A g \in G : seen[i][g] = account[g]
  BY <1>0, <1>5, FreshAccounts DEF CommitReopen
<1>7. ASSUME NEW g \in Gangs
      PROVE  /\ account'[g].given = account[g].given
             /\ account'[g].returned = account[g].returned
             /\ account'[g].earned = account[g].earned
             /\ account'[g].recovered = account[g].recovered
             /\ account'[g].paid = account[g].paid
             /\ account'[g].reserved
                  = account[g].reserved - (IF g \in G THEN c.recovery[g] ELSE 0)
             /\ \/ account'[g] = account[g]
                \/ account'[g].version = account[g].version + 1
  <2>1. account[g].reserved \in Int /\ c.recovery[g] \in Int
    BY <1>5 DEF Accounts
  <2>2. CASE g \in G
    <3>1. account'[g] = Released(account[g], c.recovery[g])
      BY <1>3, <1>6, <2>2
    <3>2. QED
      BY <1>5, <2>1, <2>2, <3>1, ReleasedFields
  <2>3. CASE g \notin G
    BY <1>3, <2>1, <2>3
  <2>4. QED
    BY <2>2, <2>3
<1>8. /\ cycle'[p] = NoCycle
      /\ \A q \in Projects \ {p} : cycle'[q] = cycle[q]
  BY <1>0, <1>2, <1>3 DEF TypeOK
<1>9. /\ NoCycle.id = 0 /\ NoCycle.status = "None" /\ NoCycle.paid = {}
      /\ NoCycle.settlements = 0 /\ NoCycle.members = {}
      /\ \A g \in Gangs : NoCycle.recovery[g] = 0 /\ NoCycle.gross[g] = 0
  BY DEF NoCycle
<1>10. nextId \in Nat \ {0}
  BY <1>0 DEF TypeOK
<1>11. TypeOK'
  BY <1>0, ReopenType
<1>12. AccountSnapshots'
  BY <1>0, <1>3, <1>7, SnapshotsAfterCommit
<1>13. DailySnapshots' /\ TotalSnapshots'
  BY <1>0, <1>3, OthersKept, SourceSnapshotsKept DEF rosterVars
<1>14. CashTotals' /\ WageTotals'
  BY <1>0, <1>3, <1>7, CashKept, WagesKept DEF rosterVars
<1>15. EntriesSound'
  <2> SUFFICES ASSUME NEW q \in Projects, NEW g \in Gangs
               PROVE  /\ cycle'[q].paid \subseteq cycle'[q].members
                      /\ 0 <= cycle'[q].recovery[g]
                      /\ cycle'[q].recovery[g] <= cycle'[q].gross[g]
    BY DEF EntriesSound
  <2>1. CASE q = p
    BY <1>8, <1>9, <2>1
  <2>2. CASE q # p
    BY <1>0, <1>8, <2>2 DEF EntriesSound
  <2>3. QED
    BY <2>1, <2>2
<1>16. RegistersSound'
  <2>1. ASSUME NEW q \in Projects
        PROVE  /\ cycle'[q].id < nextId'
               /\ cycle'[q].id = 0 => cycle'[q] = NoCycle
               /\ cycle'[q].status \in {"None", "Pending"} =>
                    cycle'[q].paid = {} /\ cycle'[q].settlements = 0
    <3>1. CASE q = p
      BY <1>3, <1>8, <1>9, <1>10, <3>1
    <3>2. CASE q # p
      BY <1>0, <1>3, <1>8, <3>2 DEF RegistersSound
    <3>3. QED
      BY <3>1, <3>2
  <2>2. ASSUME NEW q \in Projects, NEW s \in Projects,
               cycle'[q].id = cycle'[s].id, cycle'[q].id # 0
        PROVE  q = s
    BY <1>0, <1>8, <1>9, <2>2 DEF RegistersSound
  <2>3. \A x \in receipts' : 0 < x.cycle /\ x.cycle < nextId'
    BY <1>0, <1>3 DEF RegistersSound
  <2>4. QED
    BY <2>1, <2>2, <2>3 DEF RegistersSound
<1>17. RegisterSnapshots'
  <2> SUFFICES ASSUME NEW j \in Invocations, req'[j].op \in {"reopen", "settle"}
               PROVE  LET b == req[j].cycle
                          now == cycle'[req[j].project]
                      IN  /\ 0 < b.id /\ b.id < nextId'
                          /\ now.id = b.id => b.settlements <= now.settlements
                          /\ now.id = b.id /\ now.settlements = b.settlements
                               => now = b
                          /\ req[j].op = "reopen" => b.settlements = 0
                          /\ req[j].op = "settle" => req[j].selected
                               \in (b.members \ b.paid) \cup {"all"}
    BY <1>0, <1>3, OthersKept DEF RegisterSnapshots
  <2>1. req'[j] = req[j]
    BY <1>0, <1>3, OthersKept
  <2>2. req[j].project \in Projects
    BY <1>0, <2>1, RequestKinds DEF ReopenRequests, SettleRequests
  <2>3. CASE req[j].project = p
    BY <1>0, <1>3, <1>8, <1>9, <2>1, <2>3 DEF RegisterSnapshots
  <2>4. CASE req[j].project # p
    BY <1>0, <1>3, <1>8, <2>1, <2>2, <2>4 DEF RegisterSnapshots
  <2>5. QED
    BY <2>3, <2>4
<1>18. AdvanceCovered'
  <2> SUFFICES ASSUME NEW g \in Gangs
               PROVE  account'[g].returned + account'[g].recovered
                        + account'[g].reserved <= account'[g].given
    BY DEF AdvanceCovered
  <2>1. /\ account[g].given \in Int /\ account[g].returned \in Int
        /\ account[g].recovered \in Int /\ account[g].reserved \in Int
        /\ c.recovery[g] \in Nat
    BY <1>5 DEF Accounts
  <2>2. QED
    BY <1>0, <1>7, <2>1 DEF AdvanceCovered
<1>19. SnapshotCurrent'
  <2>1. daily' = daily /\ wages' = wages
    BY <1>3 DEF rosterVars
  <2>2. \A q : Recorded(q)' = Recorded(q)
    BY <2>1 DEF Recorded
  <2>3. ASSUME NEW q \in Projects, cycle'[q] # NoCycle
        PROVE  /\ cycle'[q].members = Recorded(q)
               /\ \A g \in cycle'[q].members : cycle'[q].gross[g] = wages[q][g]
    BY <1>0, <1>8, <2>3 DEF SnapshotCurrent
  <2>4. QED
    BY <2>1, <2>2, <2>3 DEF SnapshotCurrent, NoCycle
<1>20. SettledOnce'
  <2>1. ASSUME NEW q \in Projects
        PROVE  cycle'[q].paid = UNION {x.groups : x \in {y \in receipts :
                                                      y.cycle = cycle'[q].id}}
    <3>1. CASE q = p
      <4>1. {y \in receipts : y.cycle = cycle'[q].id} = {}
        BY <1>0, <1>8, <1>9, <3>1 DEF RegistersSound
      <4>2. QED
        BY <1>8, <1>9, <3>1, <4>1
    <3>2. CASE q # p
      BY <1>0, <1>8, <3>2 DEF SettledOnce
    <3>3. QED
      BY <3>1, <3>2
  <2>2. QED
    BY <1>0, <1>3, <2>1 DEF SettledOnce
<1>21. RegisterTotals'
  <2>1. ASSUME NEW g \in Gangs
        PROVE  /\ ReservedOf(g)[p] = (IF g \in G THEN c.recovery[g] ELSE 0)
               /\ ReservedOf(g)'[p] = 0
               /\ RecoveredOf(g)[p] = 0 /\ RecoveredOf(g)'[p] = 0
               /\ PaidOf(g)[p] = 0 /\ PaidOf(g)'[p] = 0
    BY <1>2, <1>4, <1>8, <1>9 DEF ReservedOf, RecoveredOf, PaidOf
  <2>2. \A g \in Gangs : /\ account[g].recovered \in Int
                         /\ account[g].reserved \in Int
                         /\ account[g].paid \in Int
                         /\ c.recovery[g] \in Nat
    BY <1>5 DEF Accounts
  <2>3. \A g \in Gangs :
           /\ account'[g].reserved
                = account[g].reserved - ReservedOf(g)[p] + ReservedOf(g)'[p]
           /\ account'[g].recovered
                = account[g].recovered - RecoveredOf(g)[p] + RecoveredOf(g)'[p]
           /\ account'[g].paid
                = account[g].paid - PaidOf(g)[p] + PaidOf(g)'[p]
    BY <1>7, <2>1, <2>2
  <2>4. QED
    BY <1>0, <1>2, <1>8, <1>11, <1>15, <2>3, RegisterMoves
<1>22. QED
  BY <1>11, <1>12, <1>13, <1>14, <1>15, <1>16, <1>17, <1>18, <1>19, <1>20,
     <1>21 DEF IInv

\* What settling writes to the register's header.
LEMMA SettledHeader ==
  ASSUME NEW c \in Cycles, NEW G \in SUBSET Gangs,
         NEW s \in {"PartiallyPaid", "Paid"}
  PROVE  LET b == [c EXCEPT !.paid = G, !.settlements = @ + 1, !.status = s]
         IN  /\ b.id = c.id /\ b.members = c.members /\ b.gross = c.gross
             /\ b.recovery = c.recovery /\ b.paid = G /\ b.status = s
             /\ b.settlements = c.settlements + 1
BY DEF Cycles

LEMMA SettleStep ==
  ASSUME IInv, NEW i \in Invocations, CommitSettle(i)
  PROVE  IInv'
<1> DEFINE p == req[i].project
           c == req[i].cycle
           s == req[i].selected
           G == Target(c, s)
           status == IF c.paid \cup G = c.members THEN "Paid"
                                                  ELSE "PartiallyPaid"
           new == [c EXCEPT !.paid = c.paid \cup G, !.settlements = @ + 1,
                            !.status = status]
           receipt == [cycle |-> c.id, selected |-> s, groups |-> G]
<1>0. /\ TypeOK /\ AccountSnapshots /\ DailySnapshots /\ TotalSnapshots
      /\ RegistersSound /\ RegisterSnapshots /\ EntriesSound /\ CashTotals /\ WageTotals
      /\ RegisterTotals /\ AdvanceCovered /\ SnapshotCurrent /\ SettledOnce
  BY DEF IInv
<1>1. req[i] \in SettleRequests /\ req[i].op = "settle"
  BY <1>0, RequestKinds DEF CommitSettle, Ready
<1>2. p \in Projects /\ c \in Cycles
  BY <1>1 DEF SettleRequests
<1>3. /\ cycle[p].id = c.id /\ cycle[p].settlements = c.settlements
      /\ ~Receipted(c.id, s)
      /\ cycle' = [cycle EXCEPT ![p] = new]
      /\ receipts' = receipts \cup {receipt}
      /\ account' = [g \in Gangs |-> IF g \in G
                       THEN Settled(seen[i][g], c.recovery[g], Net(c, g))
                       ELSE account[g]]
      /\ Finish(i)
      /\ UNCHANGED << rosterVars, cashEntry, nextId >>
  BY DEF CommitSettle, Disbursed
<1>4. /\ cycle[p] = c /\ 0 < c.id
      /\ s \in (c.members \ c.paid) \cup {"all"}
  BY <1>0, <1>1, <1>3 DEF RegisterSnapshots
<1>5. /\ c.members \in SUBSET Gangs /\ c.paid \in SUBSET Gangs
      /\ c.id \in Nat /\ c.settlements \in Nat
      /\ \A g \in Gangs : c.gross[g] \in Int /\ c.recovery[g] \in Int
  BY <1>2 DEF Cycles
<1>6. G \in SUBSET Gangs /\ G \subseteq c.members \ c.paid
  BY <1>4, <1>5 DEF Target
<1>7. \A g \in Gangs : /\ c.recovery[g] \in Nat /\ Net(c, g) \in Nat
                       /\ account[g] \in Accounts
  <2>1. \A g \in Gangs : 0 <= c.recovery[g] /\ c.recovery[g] <= c.gross[g]
    BY <1>0, <1>2, <1>4 DEF EntriesSound
  <2>2. QED
    BY <1>0, <1>5, <2>1 DEF Net, TypeOK
<1>8. \A g \in G : seen[i][g] = account[g]
  BY <1>0, <1>6, FreshAccounts DEF CommitSettle, Disbursed
<1>9. ASSUME NEW g \in Gangs
      PROVE  /\ account'[g].given = account[g].given
             /\ account'[g].returned = account[g].returned
             /\ account'[g].earned = account[g].earned
             /\ account'[g].reserved
                  = account[g].reserved - (IF g \in G THEN c.recovery[g] ELSE 0)
             /\ account'[g].recovered
                  = account[g].recovered + (IF g \in G THEN c.recovery[g] ELSE 0)
             /\ account'[g].paid
                  = account[g].paid + (IF g \in G THEN Net(c, g) ELSE 0)
             /\ \/ account'[g] = account[g]
                \/ account'[g].version = account[g].version + 1
  <2>1. /\ account[g].reserved \in Int /\ account[g].recovered \in Int
        /\ account[g].paid \in Int /\ c.recovery[g] \in Int /\ Net(c, g) \in Int
    BY <1>7 DEF Accounts
  <2>2. CASE g \in G
    <3>1. account'[g] = Settled(account[g], c.recovery[g], Net(c, g))
      BY <1>3, <1>8, <2>2
    <3>2. QED
      BY <1>7, <2>1, <2>2, <3>1, SettledFields
  <2>3. CASE g \notin G
    BY <1>3, <2>1, <2>3
  <2>4. QED
    BY <2>2, <2>3
<1>10. /\ new.id = c.id /\ new.members = c.members /\ new.gross = c.gross
       /\ new.recovery = c.recovery /\ new.paid = c.paid \cup G
       /\ new.status \in {"PartiallyPaid", "Paid"}
       /\ new.settlements = c.settlements + 1
  <2>1. status \in {"PartiallyPaid", "Paid"} /\ c.paid \cup G \in SUBSET Gangs
    BY <1>5, <1>6
  <2> HIDE DEF status, G, c
  <2>2. QED
    BY <1>2, <2>1, SettledHeader
<1>11. /\ cycle'[p] = new
       /\ \A q \in Projects \ {p} : cycle'[q] = cycle[q]
  <2>1. cycle \in [Projects -> Cycles]
    BY <1>0 DEF TypeOK
  <2>2. cycle' = [cycle EXCEPT ![p] = new]
    BY <1>3
  <2> HIDE DEF new
  <2>3. QED
    BY <1>2, <2>1, <2>2
<1>12. \A q \in Projects : /\ cycle'[q].id = cycle[q].id
                           /\ cycle'[q].members = cycle[q].members
                           /\ cycle'[q].gross = cycle[q].gross
                           /\ cycle'[q].recovery = cycle[q].recovery
  BY <1>4, <1>10, <1>11
<1> HIDE DEF new, G, status
<1>13. TypeOK'
  BY <1>0, SettleType
<1>14. AccountSnapshots'
  BY <1>0, <1>3, <1>9, SnapshotsAfterCommit
<1>15. DailySnapshots' /\ TotalSnapshots'
  BY <1>0, <1>3, OthersKept, SourceSnapshotsKept DEF rosterVars
<1>16. CashTotals' /\ WageTotals'
  BY <1>0, <1>3, <1>9, CashKept, WagesKept DEF rosterVars
<1>17. EntriesSound'
  <2> SUFFICES ASSUME NEW q \in Projects, NEW g \in Gangs
               PROVE  /\ cycle'[q].paid \subseteq cycle'[q].members
                      /\ 0 <= cycle'[q].recovery[g]
                      /\ cycle'[q].recovery[g] <= cycle'[q].gross[g]
    BY DEF EntriesSound
  <2>1. cycle[q].paid \subseteq cycle[q].members
        /\ 0 <= cycle[q].recovery[g] /\ cycle[q].recovery[g] <= cycle[q].gross[g]
    BY <1>0 DEF EntriesSound
  <2>2. cycle'[q].paid \subseteq cycle'[q].members
    BY <1>4, <1>6, <1>10, <1>11, <2>1
  <2>3. QED
    BY <1>12, <2>1, <2>2
<1>18. RegistersSound'
  <2>1. ASSUME NEW q \in Projects
        PROVE  /\ cycle'[q].id < nextId'
               /\ cycle'[q].id = 0 => cycle'[q] = NoCycle
               /\ cycle'[q].status \in {"None", "Pending"} =>
                    cycle'[q].paid = {} /\ cycle'[q].settlements = 0
    <3>1. CASE q = p
      BY <1>0, <1>2, <1>3, <1>4, <1>5, <1>10, <1>11, <3>1 DEF RegistersSound
    <3>2. CASE q # p
      BY <1>0, <1>3, <1>11, <3>2 DEF RegistersSound
    <3>3. QED
      BY <3>1, <3>2
  <2>2. ASSUME NEW q \in Projects, NEW t \in Projects,
               cycle'[q].id = cycle'[t].id, cycle'[q].id # 0
        PROVE  q = t
    BY <1>0, <1>12, <2>2 DEF RegistersSound
  <2>3. \A x \in receipts' : 0 < x.cycle /\ x.cycle < nextId'
    <3>1. c.id < nextId
      BY <1>0, <1>2, <1>4 DEF RegistersSound
    <3>2. QED
      BY <1>0, <1>3, <1>4, <3>1 DEF RegistersSound
  <2>4. QED
    BY <2>1, <2>2, <2>3 DEF RegistersSound
<1>19. RegisterSnapshots'
  <2> SUFFICES ASSUME NEW j \in Invocations, req'[j].op \in {"reopen", "settle"}
               PROVE  LET b == req[j].cycle
                          now == cycle'[req[j].project]
                      IN  /\ 0 < b.id /\ b.id < nextId'
                          /\ now.id = b.id => b.settlements <= now.settlements
                          /\ now.id = b.id /\ now.settlements = b.settlements
                               => now = b
                          /\ req[j].op = "reopen" => b.settlements = 0
                          /\ req[j].op = "settle" => req[j].selected
                               \in (b.members \ b.paid) \cup {"all"}
    BY <1>0, <1>3, OthersKept DEF RegisterSnapshots
  <2>1. req'[j] = req[j]
    BY <1>0, <1>3, OthersKept
  <2>2. req[j].cycle \in Cycles /\ req[j].project \in Projects
    BY <1>0, <2>1, RequestKinds DEF ReopenRequests, SettleRequests
  <2>3. req[j].cycle.settlements \in Nat
    BY <2>2 DEF Cycles
  <2>4. CASE req[j].project = p
    BY <1>0, <1>3, <1>4, <1>5, <1>10, <1>11, <2>1, <2>3, <2>4
       DEF RegisterSnapshots
  <2>5. CASE req[j].project # p
    BY <1>0, <1>3, <1>11, <2>1, <2>2, <2>5 DEF RegisterSnapshots
  <2>6. QED
    BY <2>4, <2>5
<1>20. AdvanceCovered'
  <2> SUFFICES ASSUME NEW g \in Gangs
               PROVE  account'[g].returned + account'[g].recovered
                        + account'[g].reserved <= account'[g].given
    BY DEF AdvanceCovered
  <2>1. /\ account[g].given \in Int /\ account[g].returned \in Int
        /\ account[g].recovered \in Int /\ account[g].reserved \in Int
        /\ c.recovery[g] \in Nat
    BY <1>7 DEF Accounts
  <2>2. QED
    BY <1>0, <1>9, <2>1 DEF AdvanceCovered
<1>21. SnapshotCurrent'
  <2>1. daily' = daily /\ wages' = wages
    BY <1>3 DEF rosterVars
  <2>2. \A q : Recorded(q)' = Recorded(q)
    BY <2>1 DEF Recorded
  <2>3. ASSUME NEW q \in Projects, cycle'[q] # NoCycle
        PROVE  /\ cycle'[q].members = Recorded(q)
               /\ \A g \in cycle'[q].members : cycle'[q].gross[g] = wages[q][g]
    <3>1. cycle[q] # NoCycle
      BY <1>4, <1>11, <2>3 DEF NoCycle
    <3>2. QED
      BY <1>0, <1>12, <3>1 DEF SnapshotCurrent
  <2>4. QED
    BY <2>1, <2>2, <2>3 DEF SnapshotCurrent, NoCycle
<1>22. SettledOnce'
  <2>1. \A y \in receipts : y.cycle = c.id => y.groups \cap G = {}
    <3>1. \A y \in receipts : y.cycle = c.id => y.groups \subseteq c.paid
      BY <1>0, <1>2, <1>4 DEF SettledOnce
    <3>2. QED
      BY <1>6, <3>1
  <2>2. \A x, y \in receipts' :
          x.cycle = y.cycle /\ x # y => x.groups \cap y.groups = {}
    BY <1>0, <1>3, <2>1 DEF SettledOnce
  <2>3. ASSUME NEW q \in Projects
        PROVE  cycle'[q].paid = UNION {x.groups : x \in {y \in receipts' :
                                                      y.cycle = cycle'[q].id}}
    <3>1. cycle[q].paid = UNION {x.groups : x \in {y \in receipts :
                                                      y.cycle = cycle[q].id}}
      BY <1>0 DEF SettledOnce
    <3>2. CASE q = p
      <4>1. {x.groups : x \in {y \in receipts' : y.cycle = cycle'[q].id}}
              = {x.groups : x \in {y \in receipts : y.cycle = cycle[q].id}}
                  \cup {G}
        <5>1. {y \in receipts' : y.cycle = cycle'[q].id}
                = {y \in receipts : y.cycle = cycle[q].id} \cup {receipt}
          BY <1>3, <1>4, <1>12, <3>2
        <5>2. receipt.groups = G
          OBVIOUS
        <5>3. QED
          BY <5>1, <5>2
      <4>2. UNION {x.groups : x \in {y \in receipts' : y.cycle = cycle'[q].id}}
              = cycle[q].paid \cup G
        BY <3>1, <4>1
      <4>3. cycle'[q].paid = cycle[q].paid \cup G
        BY <1>4, <1>10, <1>11, <3>2
      <4>4. QED
        BY <4>2, <4>3
    <3>3. CASE q # p
      <4>1. cycle[q].id # c.id
        BY <1>0, <1>2, <1>4, <3>3 DEF RegistersSound
      <4>2. {y \in receipts' : y.cycle = cycle'[q].id}
              = {y \in receipts : y.cycle = cycle[q].id}
        BY <1>3, <1>12, <4>1
      <4>3. QED
        BY <1>11, <3>1, <3>3, <4>2
    <3>4. QED
      BY <3>2, <3>3
  <2>4. QED
    BY <2>2, <2>3 DEF SettledOnce
<1>23. RegisterTotals'
  <2>1. ASSUME NEW g \in Gangs
        PROVE  /\ ReservedOf(g)'[p] - ReservedOf(g)[p]
                    = - (IF g \in G THEN c.recovery[g] ELSE 0)
               /\ RecoveredOf(g)'[p] - RecoveredOf(g)[p]
                    = (IF g \in G THEN c.recovery[g] ELSE 0)
               /\ PaidOf(g)'[p] - PaidOf(g)[p]
                    = (IF g \in G THEN Net(c, g) ELSE 0)
               /\ ReservedOf(g)[p] \in Nat /\ ReservedOf(g)'[p] \in Nat
               /\ RecoveredOf(g)[p] \in Nat /\ RecoveredOf(g)'[p] \in Nat
               /\ PaidOf(g)[p] \in Nat /\ PaidOf(g)'[p] \in Nat
    <3>1. Net(new, g) = Net(c, g)
      BY <1>10 DEF Net
    <3>2. /\ cycle'[p].paid = c.paid \cup G /\ cycle'[p].members = c.members
          /\ cycle'[p].recovery = c.recovery /\ cycle'[p] = new
      BY <1>10, <1>11
    <3>3. /\ ReservedOf(g)[p] = IF g \in c.members \ c.paid
                                THEN c.recovery[g] ELSE 0
          /\ RecoveredOf(g)[p] = IF g \in c.paid THEN c.recovery[g] ELSE 0
          /\ PaidOf(g)[p] = IF g \in c.paid THEN Net(c, g) ELSE 0
      BY <1>2, <1>4 DEF ReservedOf, RecoveredOf, PaidOf
    <3>4. /\ ReservedOf(g)'[p] = IF g \in c.members \ (c.paid \cup G)
                                 THEN c.recovery[g] ELSE 0
          /\ RecoveredOf(g)'[p] = IF g \in c.paid \cup G
                                  THEN c.recovery[g] ELSE 0
      BY <1>2, <3>2 DEF ReservedOf, RecoveredOf
    <3>5. PaidOf(g)'[p] = IF g \in c.paid \cup G THEN Net(c, g) ELSE 0
      <4>1. \A q \in Projects :
              PaidOf(g)'[q] = IF g \in cycle'[q].paid
                              THEN cycle'[q].gross[g] - cycle'[q].recovery[g]
                              ELSE 0
        BY DEF PaidOf, Net
      <4>2. QED
        BY <1>2, <1>10, <1>11, <3>2, <4>1 DEF Net
    <3>6. c.recovery[g] \in Nat /\ Net(c, g) \in Nat
      BY <1>7
    <3>7. CASE g \in G
      BY <1>6, <3>3, <3>4, <3>5, <3>6, <3>7
    <3>8. CASE g \notin G
      BY <3>3, <3>4, <3>5, <3>6, <3>8
    <3>9. QED
      BY <3>7, <3>8
  <2>2. \A g \in Gangs : /\ account[g].recovered \in Int
                         /\ account[g].reserved \in Int
                         /\ account[g].paid \in Int
                         /\ c.recovery[g] \in Nat /\ Net(c, g) \in Nat
    BY <1>7 DEF Accounts
  <2>3. \A g \in Gangs :
           /\ account'[g].reserved
                = account[g].reserved - ReservedOf(g)[p] + ReservedOf(g)'[p]
           /\ account'[g].recovered
                = account[g].recovered - RecoveredOf(g)[p] + RecoveredOf(g)'[p]
           /\ account'[g].paid
                = account[g].paid - PaidOf(g)[p] + PaidOf(g)'[p]
    BY <1>9, <2>1, <2>2
  <2>4. QED
    BY <1>0, <1>2, <1>11, <1>13, <1>17, <2>3, RegisterMoves
<1>24. QED
  BY <1>13, <1>14, <1>15, <1>16, <1>17, <1>18, <1>19, <1>20, <1>21, <1>22,
     <1>23 DEF IInv

-----------------------------------------------------------------------------
(* Reads preserve the invariant: what is read is what is stored.           *)

\* The parts of the invariant about stored items alone.
LEMMA StoredKept ==
  ASSUME IInv, UNCHANGED stored
  PROVE  /\ RegistersSound' /\ EntriesSound' /\ CashTotals' /\ WageTotals'
         /\ RegisterTotals' /\ AdvanceCovered' /\ SnapshotCurrent'
         /\ SettledOnce'
<1>1. CashTotals' /\ WageTotals' /\ RegisterTotals'
  BY CashKept, WagesKept, RegistersKept DEF IInv, stored
<1>2. SnapshotCurrent'
  BY CurrentKept DEF IInv, stored
<1>3. RegistersSound' /\ EntriesSound' /\ AdvanceCovered' /\ SettledOnce'
  BY DEF IInv, stored, RegistersSound, EntriesSound, AdvanceCovered,
         SettledOnce
<1>4. QED
  BY <1>1, <1>2, <1>3

\* A request that holds what is stored when it starts satisfies the invariant.
LEMMA StartKept ==
  ASSUME IInv, TypeOK', NEW i \in Invocations, NEW r, NEW G, Start(i, r, G),
         r.op = "gang_attendance" => r.before = daily[r.project][r.gang][r.day],
         r.op = "generate" => r.revision = revision[r.project] /\ ~r.queried,
         r.op \in {"reopen", "settle"} =>
           /\ r.project \in Projects
           /\ r.cycle = cycle[r.project] /\ r.cycle # NoCycle
           /\ r.op = "reopen" => r.cycle.settlements = 0
           /\ r.op = "settle" => r.selected
                \in (r.cycle.members \ r.cycle.paid) \cup {"all"}
  PROVE  IInv'
<1>0. /\ TypeOK /\ AccountSnapshots /\ DailySnapshots /\ TotalSnapshots
      /\ RegistersSound /\ RegisterSnapshots
  BY DEF IInv
<1>1. /\ UNCHANGED stored /\ UNCHANGED seen
      /\ req'[i] = r /\ \A j \in Invocations : j # i => req'[j] = req[j]
  BY <1>0 DEF Start, TypeOK
<1>2. AccountSnapshots'
  BY <1>0, <1>1 DEF AccountSnapshots, stored
<1>3. DailySnapshots'
  <2> SUFFICES ASSUME NEW j \in Invocations, req'[j].op = "gang_attendance"
               PROVE  LET b == req'[j].before
                          now == daily[req'[j].project][req'[j].gang][req'[j].day]
                      IN  b.version <= now.version
                          /\ (b.version = now.version => b = now)
    BY <1>1 DEF DailySnapshots, stored
  <2>1. CASE j # i
    BY <1>0, <1>1, <2>1 DEF DailySnapshots
  <2>2. CASE j = i
    <3>1. r \in AttendanceRequests
      BY <1>1, <2>2, RequestOf DEF TypeOK
    <3>2. daily[r.project][r.gang][r.day].version \in Nat
      BY <1>0, <3>1 DEF TypeOK, AttendanceRequests, Dailies
    <3>3. QED
      BY <1>1, <2>2, <3>2
  <2>3. QED
    BY <2>1, <2>2
<1>4. TotalSnapshots'
  <2> SUFFICES ASSUME NEW j \in Invocations, req'[j].op = "generate"
               PROVE  /\ req'[j].revision <= revision[req'[j].project]
                      /\ req'[j].queried
                         /\ req'[j].revision = revision[req'[j].project]
                           => /\ req'[j].members = Recorded(req'[j].project)
                              /\ req'[j].gross = wages[req'[j].project]
    BY <1>1 DEF TotalSnapshots, stored, Recorded
  <2>1. CASE j # i
    BY <1>0, <1>1, <2>1 DEF TotalSnapshots
  <2>2. CASE j = i
    <3>1. r \in GenerateRequests
      BY <1>1, <2>2, RequestOf DEF TypeOK
    <3>2. revision[r.project] \in Nat
      BY <1>0, <3>1 DEF TypeOK, GenerateRequests
    <3>3. QED
      BY <1>1, <2>2, <3>2
  <2>3. QED
    BY <2>1, <2>2
<1>5. RegisterSnapshots'
  <2> SUFFICES ASSUME NEW j \in Invocations,
                      req'[j].op \in {"reopen", "settle"}
               PROVE  LET b == req'[j].cycle
                          now == cycle[req'[j].project]
                      IN  /\ 0 < b.id /\ b.id < nextId
                          /\ now.id = b.id => b.settlements <= now.settlements
                          /\ now.id = b.id /\ now.settlements = b.settlements
                               => now = b
                          /\ req'[j].op = "reopen" => b.settlements = 0
                          /\ req'[j].op = "settle" => req'[j].selected
                               \in (b.members \ b.paid) \cup {"all"}
    BY <1>1 DEF RegisterSnapshots, stored
  <2>1. CASE j # i
    BY <1>0, <1>1, <2>1 DEF RegisterSnapshots
  <2>2. CASE j = i
    <3>1. /\ cycle[r.project].id \in Nat /\ cycle[r.project].settlements \in Nat
          /\ cycle[r.project].id < nextId /\ cycle[r.project].id # 0
      BY <1>0, <1>1, <2>2 DEF TypeOK, Cycles, RegistersSound
    <3>2. QED
      BY <1>1, <2>2, <3>1
  <2>3. QED
    BY <2>1, <2>2
<1>6. QED
  BY <1>1, <1>2, <1>3, <1>4, <1>5, StoredKept DEF IInv

LEMMA BeginStep ==
  ASSUME IInv, NEW i \in Invocations, Begin(i)
  PROVE  IInv'
<1>0. TypeOK /\ RegistersSound
  BY DEF IInv
<1>1. TypeOK'
  BY <1>0, BeginType
<1>2. ASSUME NEW op \in {"gang_advance", "gang_advance_return"},
             NEW g \in Gangs, NEW id \in CashIds, NEW n \in 1..MaxCash,
             StartCash(i, op, g, id, n)
      PROVE  IInv'
  <2> DEFINE r == [op |-> op, gang |-> g, amount |-> n, id |-> id]
  <2>1. r.op \notin {"gang_attendance", "generate", "reopen", "settle"}
    OBVIOUS
  <2>2. Start(i, r, {g})
    BY <1>2 DEF StartCash
  <2> HIDE DEF r
  <2>3. QED
    BY <1>1, <2>1, <2>2, StartKept
<1>3. ASSUME NEW g \in Gangs, NEW d \in Days, NEW p \in Projects,
             StartAllocate(i, g, d, p)
      PROVE  IInv'
  <2> DEFINE r == [op |-> "gang_allocate", gang |-> g, day |-> d, project |-> p,
                   before |-> allocation[g][d]]
  <2>1. r.op \notin {"gang_attendance", "generate", "reopen", "settle"}
    OBVIOUS
  <2>2. Start(i, r, {})
    BY <1>3 DEF StartAllocate
  <2> HIDE DEF r
  <2>3. QED
    BY <1>1, <2>1, <2>2, StartKept
<1>4. ASSUME NEW g \in Gangs, NEW d \in Days, NEW p \in Projects,
             NEW w \in 0..MaxWage, StartAttendance(i, g, d, p, w)
      PROVE  IInv'
  <2> DEFINE r == [op |-> "gang_attendance", gang |-> g, day |-> d,
                   project |-> p, wage |-> w, before |-> daily[p][g][d],
                   assigned |-> allocation[g][d]]
  <2>1. /\ r.op \notin {"generate", "reopen", "settle"}
        /\ r.before = daily[r.project][r.gang][r.day]
    OBVIOUS
  <2>2. Start(i, r, {g})
    BY <1>4 DEF StartAttendance
  <2> HIDE DEF r
  <2>3. QED
    BY <1>1, <2>1, <2>2, StartKept
<1>5. ASSUME NEW p \in Projects, StartGenerate(i, p)
      PROVE  IInv'
  <2> DEFINE r == [op |-> "generate", project |-> p, revision |-> revision[p],
                   queried |-> FALSE, members |-> {},
                   gross |-> [g \in Gangs |-> 0]]
  <2>1. /\ r.op \notin {"gang_attendance", "reopen", "settle"}
        /\ r.revision = revision[r.project] /\ ~r.queried
    OBVIOUS
  <2>2. Start(i, r, {})
    BY <1>5 DEF StartGenerate
  <2> HIDE DEF r
  <2>3. QED
    BY <1>1, <2>1, <2>2, StartKept
<1>6. ASSUME NEW p \in Projects, StartReopen(i, p)
      PROVE  IInv'
  <2> DEFINE r == [op |-> "reopen", project |-> p, cycle |-> cycle[p]]
  <2>1. /\ r.op \notin {"gang_attendance", "generate", "settle"}
        /\ r.project \in Projects
        /\ r.cycle = cycle[r.project] /\ r.cycle # NoCycle
        /\ r.cycle.settlements = 0
    BY <1>0, <1>6 DEF StartReopen, RegistersSound, NoCycle
  <2>2. Start(i, r, cycle[p].members)
    BY <1>6 DEF StartReopen
  <2> HIDE DEF r
  <2>3. QED
    BY <1>1, <2>1, <2>2, StartKept
<1>7. ASSUME NEW p \in Projects, NEW s \in Gangs \cup {"all"},
             StartSettle(i, p, s)
      PROVE  IInv'
  <2> DEFINE r == [op |-> "settle", project |-> p, cycle |-> cycle[p],
                   selected |-> s]
  <2>1. /\ r.op \notin {"gang_attendance", "generate", "reopen"}
        /\ r.project \in Projects
        /\ r.cycle = cycle[r.project] /\ r.cycle # NoCycle
        /\ r.selected \in (r.cycle.members \ r.cycle.paid) \cup {"all"}
    BY <1>7 DEF StartSettle
  <2>2. Start(i, r, Target(cycle[p], s))
    BY <1>7 DEF StartSettle
  <2> HIDE DEF r
  <2>3. QED
    BY <1>1, <2>1, <2>2, StartKept
<1>8. QED
  BY <1>2, <1>3, <1>4, <1>5, <1>6, <1>7 DEF Begin

LEMMA QueryStep ==
  ASSUME IInv, NEW i \in Invocations, QueryTotals(i)
  PROVE  IInv'
<1>0. /\ TypeOK /\ AccountSnapshots /\ DailySnapshots /\ TotalSnapshots
      /\ RegisterSnapshots
  BY DEF IInv
<1>1. req[i] \in GenerateRequests /\ req[i].op = "generate"
  BY <1>0, RequestKinds DEF QueryTotals
<1>2. /\ UNCHANGED stored /\ UNCHANGED seen
      /\ \A j \in Invocations : j # i => req'[j] = req[j]
      /\ req'[i] = [req[i] EXCEPT !.queried = TRUE,
                                  !.members = Recorded(req[i].project),
                                  !.gross = wages[req[i].project]]
  BY <1>0 DEF QueryTotals, TypeOK
<1>3. /\ req'[i].op = "generate" /\ req'[i].project = req[i].project
      /\ req'[i].revision = req[i].revision
      /\ req'[i].members = Recorded(req[i].project)
      /\ req'[i].gross = wages[req[i].project]
  BY <1>1, <1>2 DEF GenerateRequests
<1>4. TypeOK' /\ AccountSnapshots'
  <2>1. TypeOK'
    BY <1>0, QueryType
  <2>2. AccountSnapshots'
    BY <1>0, <1>2 DEF AccountSnapshots, stored
  <2>3. QED
    BY <2>1, <2>2
<1>5. DailySnapshots'
  <2>1. daily' = daily
    BY <1>2 DEF stored
  <2>2. \A j \in Invocations :
          req'[j].op = "gang_attendance" => req'[j] = req[j]
    BY <1>2, <1>3
  <2>3. QED
    BY <1>0, <2>1, <2>2 DEF DailySnapshots
<1>6. RegisterSnapshots'
  <2>1. cycle' = cycle /\ nextId' = nextId
    BY <1>2 DEF stored
  <2>2. \A j \in Invocations :
          req'[j].op \in {"reopen", "settle"} => req'[j] = req[j]
    BY <1>2, <1>3
  <2>3. QED
    BY <1>0, <2>1, <2>2 DEF RegisterSnapshots
<1>7. TotalSnapshots'
  <2> SUFFICES ASSUME NEW j \in Invocations, req'[j].op = "generate"
               PROVE  /\ req'[j].revision <= revision[req'[j].project]
                      /\ req'[j].queried
                         /\ req'[j].revision = revision[req'[j].project]
                           => /\ req'[j].members = Recorded(req'[j].project)
                              /\ req'[j].gross = wages[req'[j].project]
    BY <1>2 DEF TotalSnapshots, stored, Recorded
  <2>1. CASE j # i
    BY <1>0, <1>2, <2>1 DEF TotalSnapshots
  <2>2. CASE j = i
    BY <1>0, <1>1, <1>3, <2>2 DEF TotalSnapshots
  <2>3. QED
    BY <2>1, <2>2
<1>8. QED
  BY <1>2, <1>4, <1>5, <1>6, <1>7, StoredKept DEF IInv

LEMMA ReadStep ==
  ASSUME IInv, NEW i \in Invocations, NEW g \in Gangs, ReadAccount(i, g)
  PROVE  IInv'
<1>0. /\ TypeOK /\ AccountSnapshots /\ DailySnapshots /\ TotalSnapshots
      /\ RegisterSnapshots
  BY DEF IInv
<1>1. /\ UNCHANGED stored /\ UNCHANGED req
      /\ seen' = [seen EXCEPT ![i][g] = account[g]]
  BY DEF ReadAccount
<1>2. TypeOK'
  BY <1>0, <1>1 DEF ReadAccount, TypeOK, stored
<1>3. AccountSnapshots'
  <2>1. \A h \in Gangs : account[h].version \in Nat
    BY <1>0 DEF TypeOK, Accounts
  <2>2. \A j \in Invocations, h \in Gangs :
          seen'[j][h] = seen[j][h] \/ seen'[j][h] = account[h]
    BY <1>0, <1>1 DEF TypeOK
  <2>3. QED
    BY <1>0, <1>1, <2>1, <2>2 DEF AccountSnapshots, stored
<1>4. DailySnapshots' /\ TotalSnapshots'
  BY <1>0, <1>1, SourceSnapshotsKept DEF stored
<1>5. RegisterSnapshots'
  BY <1>0, <1>1 DEF RegisterSnapshots, stored
<1>6. QED
  BY <1>1, <1>2, <1>3, <1>4, <1>5, StoredKept DEF IInv

LEMMA AbandonStep ==
  ASSUME IInv, NEW i \in Invocations, Abandon(i)
  PROVE  IInv'
<1>0. /\ TypeOK /\ AccountSnapshots /\ DailySnapshots /\ TotalSnapshots
      /\ RegisterSnapshots
  BY DEF IInv
<1>1. Finish(i) /\ UNCHANGED stored
  BY DEF Abandon
<1>2. TypeOK'
  BY <1>0, <1>1, FinishType DEF TypeOK, stored
<1>3. AccountSnapshots'
  BY <1>0, <1>1, SnapshotsAfterCommit DEF stored
<1>4. DailySnapshots' /\ TotalSnapshots'
  BY <1>0, <1>1, OthersKept, SourceSnapshotsKept DEF stored
<1>5. RegisterSnapshots'
  BY <1>0, <1>1, OthersKept DEF RegisterSnapshots, stored
<1>6. QED
  BY <1>1, <1>2, <1>3, <1>4, <1>5, StoredKept DEF IInv

LEMMA StutterStep ==
  ASSUME IInv, UNCHANGED vars
  PROVE  IInv'
<1>0. /\ TypeOK /\ AccountSnapshots /\ DailySnapshots /\ TotalSnapshots
      /\ RegisterSnapshots
  BY DEF IInv
<1>1. UNCHANGED stored /\ UNCHANGED << req, seen, unread >>
  BY DEF vars, stored
<1>2. TypeOK' /\ AccountSnapshots' /\ RegisterSnapshots'
  BY <1>0, <1>1 DEF TypeOK, AccountSnapshots, RegisterSnapshots, stored
<1>3. DailySnapshots' /\ TotalSnapshots'
  BY <1>0, <1>1, SourceSnapshotsKept DEF stored
<1>4. QED
  BY <1>1, <1>2, <1>3, StoredKept DEF IInv

-----------------------------------------------------------------------------
(* The theorems.                                                           *)

LEMMA InitInvariant == Init => IInv
<1> SUFFICES ASSUME Init
             PROVE  IInv
  OBVIOUS
<1>1. TypeOK
  BY InitType
<1>2. /\ \A i \in Invocations : req[i].op = "idle"
      /\ \A g \in Gangs : account[g] = NoAccount
      /\ \A p \in Projects : cycle[p] = NoCycle
      /\ \A i \in Invocations, g \in Gangs : seen[i][g] = NoAccount
      /\ receipts = {} /\ nextId = 1
  BY DEF Init, Idle
<1>3. AccountSnapshots /\ AdvanceCovered
  BY <1>2 DEF AccountSnapshots, AdvanceCovered, NoAccount
<1>4. DailySnapshots /\ TotalSnapshots /\ RegisterSnapshots
  BY <1>2 DEF DailySnapshots, TotalSnapshots, RegisterSnapshots
<1>5. RegistersSound /\ EntriesSound
  <2>1. /\ NoCycle.id = 0 /\ NoCycle.paid = {} /\ NoCycle.settlements = 0
        /\ NoCycle.members = {}
        /\ \A g \in Gangs : NoCycle.recovery[g] = 0 /\ NoCycle.gross[g] = 0
    BY DEF NoCycle
  <2>2. RegistersSound
    BY <1>2, <2>1 DEF RegistersSound
  <2>3. EntriesSound
    BY <1>2, <2>1 DEF EntriesSound
  <2>4. QED
    BY <2>2, <2>3
<1>6. SnapshotCurrent
  BY <1>2 DEF SnapshotCurrent
<1>7. SettledOnce
  BY <1>2 DEF SettledOnce, NoCycle
<1>8. CashTotals
  <2>1. \A op, g : \A id \in CashIds :
          op \in {"gang_advance", "gang_advance_return"} =>
            CashOf(op, g)[id] = 0
    BY DEF Init, CashOf, NoCash
  <2>2. \A op \in {"gang_advance", "gang_advance_return"}, g \in Gangs :
          IsTotal(CashIds, CashOf(op, g), 0)
    BY <2>1, TotalZero, FiniteAssumption
  <2>3. QED
    BY <1>2, <2>2 DEF CashTotals, NoAccount
<1>9. WageTotals
  <2>1. /\ \A p \in Projects, g \in Gangs : \A d \in Days : WageOf(p, g)[d] = 0
        /\ \A g \in Gangs : \A p \in Projects : EarnedOf(g)[p] = 0
        /\ \A p \in Projects, g \in Gangs : wages[p][g] = 0
    BY DEF Init, WageOf, EarnedOf, NoDaily
  <2>2. /\ \A p \in Projects, g \in Gangs : IsTotal(Days, WageOf(p, g), 0)
        /\ \A g \in Gangs : IsTotal(Projects, EarnedOf(g), 0)
    BY <2>1, TotalZero, FiniteAssumption
  <2>3. QED
    BY <1>2, <2>1, <2>2 DEF WageTotals, NoAccount
<1>10. RegisterTotals
  <2>1. \A g \in Gangs : \A p \in Projects :
          ReservedOf(g)[p] = 0 /\ RecoveredOf(g)[p] = 0 /\ PaidOf(g)[p] = 0
    BY <1>2 DEF ReservedOf, RecoveredOf, PaidOf, NoCycle
  <2>2. \A g \in Gangs : /\ IsTotal(Projects, ReservedOf(g), 0)
                         /\ IsTotal(Projects, RecoveredOf(g), 0)
                         /\ IsTotal(Projects, PaidOf(g), 0)
    BY <2>1, TotalZero, FiniteAssumption
  <2>3. QED
    BY <1>2, <2>2 DEF RegisterTotals, NoAccount
<1>11. QED
  BY <1>1, <1>3, <1>4, <1>5, <1>6, <1>7, <1>8, <1>9, <1>10 DEF IInv

LEMMA NextInvariant == IInv /\ [Next]_vars => IInv'
<1>1. ASSUME IInv, NEW i \in Invocations, Commit(i)
      PROVE  IInv'
  BY <1>1, CashStep, AllocateStep, AttendanceStep, GenerateStep, ReopenStep,
     SettleStep DEF Commit
<1>2. ASSUME IInv, Next
      PROVE  IInv'
  BY <1>1, <1>2, BeginStep, ReadStep, QueryStep, AbandonStep DEF Next
<1>3. QED
  BY <1>2, StutterStep

\* The inductive invariant holds in every reachable state, whatever requests
\* race, are repeated, time out or fail.
THEOREM InvariantHolds == Spec => []IInv
BY InitInvariant, NextInvariant, PTL DEF Spec

\* Advances are never returned, recovered or reserved beyond what was given.
THEOREM AdvancesCovered == Spec => []AdvanceCovered
<1>1. IInv => AdvanceCovered
  BY DEF IInv
<1>2. QED
  BY <1>1, InvariantHolds, PTL

\* The account's advances and returns are exactly the receipted cash entries.
THEOREM CashPostedOnce == Spec => []CashTotals
<1>1. IInv => CashTotals
  BY DEF IInv
<1>2. QED
  BY <1>1, InvariantHolds, PTL

\* Monthly wages and earnings are exactly the sums of the attendance records.
THEOREM WagesAddUp == Spec => []WageTotals
<1>1. IInv => WageTotals
  BY DEF IInv
<1>2. QED
  BY <1>1, InvariantHolds, PTL

\* Reservations, recoveries and payments of an account are exactly those of
\* the entries of the registers that stand.
THEOREM RegistersAddUp == Spec => []RegisterTotals
<1>1. IInv => RegisterTotals
  BY DEF IInv
<1>2. QED
  BY <1>1, InvariantHolds, PTL

\* The reservation of every unpaid entry is in its gang's account, so
\* reopening and settling never find it missing.
THEOREM ReservationsHeld == Spec => []ReservationHeld
<1>1. IInv => ReservationHeld
  <2> SUFFICES ASSUME IInv, NEW p \in Projects,
                      NEW g \in cycle[p].members \ cycle[p].paid
               PROVE  cycle[p].recovery[g] <= account[g].reserved
    BY DEF ReservationHeld
  <2>1. TypeOK /\ EntriesSound /\ RegisterTotals
    BY DEF IInv
  <2>2. g \in Gangs /\ account[g].reserved \in Int
    BY <2>1 DEF TypeOK, Cycles, Accounts
  <2>3. ReservedOf(g) \in [Projects -> Nat]
    BY <2>1, <2>2, ContributionTypes
  <2>4. IsTotal(Projects, ReservedOf(g), account[g].reserved)
    BY <2>1, <2>2 DEF RegisterTotals
  <2>5. account[g].reserved \in Nat
    BY <2>3, <2>4, TotalNat, FiniteAssumption
  <2>6. ReservedOf(g)[p] <= account[g].reserved
    BY <2>3, <2>4, <2>5, TotalBound, FiniteAssumption
  <2>7. QED
    BY <2>6 DEF ReservedOf
<1>2. QED
  BY <1>1, InvariantHolds, PTL

\* A register holds the month's current attendance as long as it exists.
THEOREM SnapshotsCurrent == Spec => []SnapshotCurrent
<1>1. IInv => SnapshotCurrent
  BY DEF IInv
<1>2. QED
  BY <1>1, InvariantHolds, PTL

\* No group of a register is settled twice.
THEOREM GroupsSettledOnce == Spec => []SettledOnce
<1>1. IInv => SettledOnce
  BY DEF IInv
<1>2. QED
  BY <1>1, InvariantHolds, PTL

\* A register with a payment is never deleted, replaced or unpaid.
THEOREM PaidRegistersStand == Spec => PaidRegisterStands
<1> DEFINE Stands(p) == cycle[p].paid # {} =>
             /\ cycle'[p].id = cycle[p].id
             /\ cycle[p].paid \subseteq cycle'[p].paid
             /\ cycle'[p].gross = cycle[p].gross
             /\ cycle'[p].recovery = cycle[p].recovery
<1>1. ASSUME IInv, NEW i \in Invocations, CommitGenerate(i), NEW p \in Projects
      PROVE  Stands(p)
  <2>1. req[i].project \in Projects /\ cycle \in [Projects -> Cycles]
    BY <1>1, RequestKinds DEF IInv, TypeOK, CommitGenerate, Ready, GenerateRequests
  <2>2. CASE p = req[i].project
    BY <1>1, <2>2 DEF CommitGenerate, NoCycle
  <2>3. CASE p # req[i].project
    BY <1>1, <2>1, <2>3 DEF CommitGenerate
  <2>4. QED
    BY <2>2, <2>3
<1>2. ASSUME IInv, NEW i \in Invocations, CommitReopen(i), NEW p \in Projects
      PROVE  Stands(p)
  <2>1. req[i].project \in Projects /\ cycle \in [Projects -> Cycles]
    BY <1>2, RequestKinds DEF IInv, TypeOK, CommitReopen, Ready, ReopenRequests
  <2>2. CASE p = req[i].project
    BY <1>2, <2>2 DEF CommitReopen, IInv, RegistersSound
  <2>3. CASE p # req[i].project
    BY <1>2, <2>1, <2>3 DEF CommitReopen
  <2>4. QED
    BY <2>2, <2>3
<1>3. ASSUME IInv, NEW i \in Invocations, CommitSettle(i), NEW p \in Projects
      PROVE  Stands(p)
  <2> DEFINE c == req[i].cycle
             G == Target(c, req[i].selected)
             s == IF c.paid \cup G = c.members THEN "Paid" ELSE "PartiallyPaid"
             new == [c EXCEPT !.paid = c.paid \cup G, !.settlements = @ + 1,
                              !.status = s]
  <2>1. req[i] \in SettleRequests /\ cycle \in [Projects -> Cycles]
    BY <1>3, RequestKinds DEF IInv, TypeOK, CommitSettle, Ready
  <2>2. /\ req[i].project \in Projects /\ c \in Cycles
        /\ cycle[req[i].project] = c
        /\ cycle' = [cycle EXCEPT ![req[i].project] = new]
    BY <1>3, <2>1 DEF CommitSettle, Disbursed, Ready, SettleRequests, IInv,
       RegisterSnapshots
  <2>3. /\ new.id = c.id /\ new.paid = c.paid \cup G
        /\ new.gross = c.gross /\ new.recovery = c.recovery
    BY <2>2 DEF Cycles
  <2> HIDE DEF new, G, s
  <2>4. CASE p = req[i].project
    BY <2>1, <2>2, <2>3, <2>4
  <2>5. CASE p # req[i].project
    BY <2>1, <2>2, <2>5
  <2>6. QED
    BY <2>4, <2>5
<1>4. ASSUME IInv, Next, NEW p \in Projects
      PROVE  Stands(p)
  <2>1. PICK i \in Invocations :
          \/ Begin(i)
          \/ \E g \in Gangs : ReadAccount(i, g)
          \/ QueryTotals(i)
          \/ Commit(i)
          \/ Abandon(i)
    BY <1>4 DEF Next
  <2>2. CASE Begin(i)
    BY <2>2 DEF Begin, StartCash, StartAllocate, StartAttendance,
       StartGenerate, StartReopen, StartSettle, Start, stored
  <2>3. CASE \/ \E g \in Gangs : ReadAccount(i, g)
             \/ QueryTotals(i)
             \/ Abandon(i)
    BY <2>3 DEF ReadAccount, QueryTotals, Abandon, stored
  <2>4. CASE CommitCash(i) \/ CommitAllocate(i) \/ CommitAttendance(i)
    BY <2>4, Zenon DEF CommitCash, CommitAllocate, CommitAttendance,
       payrollVars
  <2>5. CASE CommitGenerate(i) \/ CommitReopen(i) \/ CommitSettle(i)
    BY <1>1, <1>2, <1>3, <1>4, <2>5
  <2>6. QED
    BY <2>1, <2>2, <2>3, <2>4, <2>5 DEF Commit
<1>5. IInv /\ [Next]_vars => [\A p \in Projects : Stands(p)]_vars
  BY <1>4
<1>6. Spec => [][\A p \in Projects : Stands(p)]_vars
  BY <1>5, InvariantHolds, PTL DEF Spec
<1>7. QED
  BY <1>6 DEF PaidRegisterStands
=============================================================================
