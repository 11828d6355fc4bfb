----------------------------- MODULE PayrollBuild -----------------------------
(***************************************************************************)
(* Staging and publishing the entries of a payroll register, and cleaning  *)
(* up builds that were abandoned.                                          *)
(*                                                                         *)
(* A register's entries do not fit one transaction.  The Lambda invocation *)
(* that generates it stages them page by page beside a build item that     *)
(* carries an owner and a lease, and makes them visible by publishing the  *)
(* header.  An invocation may stop at any step.  An operator's cleanup run *)
(* claims a build whose lease lapsed and deletes what was staged; it may   *)
(* stop as well, and another run may take over.                            *)
(*                                                                         *)
(* :now and :until are read from the clock of the caller before the        *)
(* request is sent, so a condition is evaluated with a time t between the  *)
(* caller's previous step (since) and the moment of the write.             *)
(***************************************************************************)
EXTENDS Integers

CONSTANTS
  Cycles,       \* cycleIds, each used for one build
  Pages,        \* pages of at most 80 entries that make up a register
  Invocations,  \* Lambda invocations and cleanup runs
  Lease,        \* 600 seconds
  MaxTime       \* bound: the clock stops there

ASSUME TimeAssumption == Lease \in Nat /\ MaxTime \in Nat

VARIABLES
  build,    \* PAYROLL-BUILD#cycleId
  entries,  \* PAYROLL-ENTRY#cycleId#...: the pages staged
  header,   \* PAYROLL#month: {} or its cycleId
  history,  \* PAYROLL-HISTORY#month#...: cycleIds of reopened registers
  clock,
  job       \* what each invocation does, and since when

vars == << build, entries, header, history, clock, job >>

-----------------------------------------------------------------------------
\* An absent leaseUntil is earlier than every time
NoLease == -1
Times == 0..MaxTime
States == {"None", "Building", "Published", "Cleaning", "Cleaned"}
Builds == [state: States, owner: SUBSET Invocations, lease: Int]
NoBuild == [state |-> "None", owner |-> {}, lease |-> NoLease]

Idle == [op |-> "idle"]
Jobs == {Idle}
  \cup [op: {"begin"}, since: Nat]
  \cup [op: {"stage", "extend"}, cycle: Cycles, left: SUBSET Pages, since: Nat]
  \cup [op: {"claim", "scan", "finish"}, cycle: Cycles, since: Nat]
  \cup [op: {"delete"}, cycle: Cycles, page: Pages, since: Nat]

\* A time the caller may have put into its request
Sampled(i, t) == t \in Times /\ job[i].since <= t /\ t <= clock

Do(i, j) == job' = [job EXCEPT ![i] = j]

LeaseHeldSlip(i, c, t) == build[c].lease >= t

\* lease_check: the build is still this invocation's to stage or publish
LeaseHeld(i, c, t) ==
  /\ build[c].state = "Building"
  /\ build[c].owner = {i}
  /\ build[c].lease >= t

-----------------------------------------------------------------------------
(* POST payroll: save_entries, then publish in one transaction.            *)

Begin(i) ==
  /\ job[i] = Idle /\ header = {}
  /\ Do(i, [op |-> "begin", since |-> clock])
  /\ UNCHANGED << build, entries, header, history, clock >>

\* new_id gives a cycleId no build has
PutBuild(i, c, t) ==
  /\ job[i].op = "begin" /\ Sampled(i, t)
  /\ build[c] = NoBuild
  /\ build' = [build EXCEPT ![c] = [state |-> "Building", owner |-> {i},
                                    lease |-> t + Lease]]
  /\ Do(i, [op |-> "stage", cycle |-> c, left |-> Pages, since |-> clock])
  /\ UNCHANGED << entries, header, history, clock >>

\* flush: one page and the lease check in one transaction, ...
StagePage(i, p, t) ==
  /\ job[i].op = "stage" /\ p \in job[i].left /\ Sampled(i, t)
  /\ LET c == job[i].cycle
     IN  /\ LeaseHeld(i, c, t) /\ p \notin entries[c]
         /\ entries' = [entries EXCEPT ![c] = @ \cup {p}]
         /\ Do(i, [op |-> "extend", cycle |-> c, left |-> job[i].left \ {p},
                   since |-> clock])
  /\ UNCHANGED << build, header, history, clock >>

\* ... then the lease is extended by a write of its own
ExtendLease(i, t) ==
  /\ job[i].op = "extend" /\ Sampled(i, t)
  /\ LET c == job[i].cycle
     IN  /\ build[c].state = "Building" /\ build[c].owner = {i}
         /\ build' = [build EXCEPT ![c].lease = t + Lease]
         /\ Do(i, [op |-> "stage", cycle |-> c, left |-> job[i].left,
                   since |-> clock])
  /\ UNCHANGED << entries, header, history, clock >>

NoHeaderSlip == TRUE

\* The header is put on attribute_not_exists(PK)
NoHeader == header = {}

Publish(i, t) ==
  /\ job[i].op = "stage" /\ job[i].left = {} /\ Sampled(i, t)
  /\ LET c == job[i].cycle
     IN  /\ NoHeader /\ LeaseHeld(i, c, t)
         /\ header' = {c}
         /\ build' = [build EXCEPT ![c].state = "Published",
                                   ![c].lease = NoLease]
  /\ Do(i, Idle)
  /\ UNCHANGED << entries, history, clock >>

\* DELETE payroll archives the header; the entries stay.  Its condition names
\* the header it read, so the read and the write are one step here.
Reopen ==
  /\ header # {}
  /\ history' = history \cup header
  /\ header' = {}
  /\ UNCHANGED << build, entries, clock, job >>

-----------------------------------------------------------------------------
(* cleanup(table, pk, cycle_id, apply=True)                                 *)

\* Refused for a published or cleaned build and while its lease is live
StartCleanup(i, c) ==
  /\ job[i] = Idle
  /\ build[c].state \in {"Building", "Cleaning"} /\ build[c].lease < clock
  /\ Do(i, [op |-> "claim", cycle |-> c, since |-> clock])
  /\ UNCHANGED << build, entries, header, history, clock >>

ClaimableSlip(c, t) == build[c].lease < t

\* The condition of the claim: not published since, and nobody holds a lease
Claimable(c, t) == build[c].state # "Published" /\ build[c].lease < t

Claim(i, t) ==
  /\ job[i].op = "claim" /\ Sampled(i, t)
  /\ LET c == job[i].cycle
     IN  /\ Claimable(c, t)
         /\ build' = [build EXCEPT ![c] = [state |-> "Cleaning",
                                           owner |-> {i}, lease |-> t + Lease]]
         /\ Do(i, [op |-> "scan", cycle |-> c, since |-> clock])
  /\ UNCHANGED << entries, header, history, clock >>

\* The query is a step of its own: what it found is deleted later
Scan(i) ==
  /\ job[i].op = "scan"
  /\ LET c == job[i].cycle
     IN  \/ /\ entries[c] = {}
            /\ Do(i, [op |-> "finish", cycle |-> c, since |-> clock])
         \/ \E p \in entries[c] :
              Do(i, [op |-> "delete", cycle |-> c, page |-> p, since |-> clock])
  /\ UNCHANGED << build, entries, header, history, clock >>

\* Both later writes of a cleanup run ask whether the claim is still its own
ClaimHeld(i, c) == build[c].state = "Cleaning" /\ build[c].owner = {i}

DeletePage(i, t) ==
  /\ job[i].op = "delete" /\ Sampled(i, t)
  /\ LET c == job[i].cycle
     IN  /\ ClaimHeld(i, c) /\ build[c].lease >= t
         /\ entries' = [entries EXCEPT ![c] = @ \ {job[i].page}]
         /\ build' = [build EXCEPT ![c].lease = t + Lease]
         /\ Do(i, [op |-> "scan", cycle |-> c, since |-> clock])
  /\ UNCHANGED << header, history, clock >>

FinishCleanup(i) ==
  /\ job[i].op = "finish"
  /\ LET c == job[i].cycle
     IN  /\ ClaimHeld(i, c)
         /\ build' = [build EXCEPT ![c].state = "Cleaned",
                                   ![c].lease = NoLease]
  /\ Do(i, Idle)
  /\ UNCHANGED << entries, header, history, clock >>

-----------------------------------------------------------------------------
\* A failed condition, a crash, a timeout or Ctrl-C between two steps
Abandon(i) ==
  /\ job[i] # Idle
  /\ Do(i, Idle)
  /\ UNCHANGED << build, entries, header, history, clock >>

Tick ==
  /\ clock < MaxTime
  /\ clock' = clock + 1
  /\ UNCHANGED << build, entries, header, history, job >>

Init ==
  /\ build = [c \in Cycles |-> NoBuild]
  /\ entries = [c \in Cycles |-> {}]
  /\ header = {} /\ history = {}
  /\ clock = 0
  /\ job = [i \in Invocations |-> Idle]

Generate(i) ==
  \/ Begin(i)
  \/ \E c \in Cycles, t \in Times : PutBuild(i, c, t)
  \/ \E p \in Pages, t \in Times : StagePage(i, p, t)
  \/ \E t \in Times : ExtendLease(i, t)
  \/ \E t \in Times : Publish(i, t)

Cleanup(i) ==
  \/ \E c \in Cycles : StartCleanup(i, c)
  \/ \E t \in Times : Claim(i, t)
  \/ Scan(i)
  \/ \E t \in Times : DeletePage(i, t)
  \/ FinishCleanup(i)

Next ==
  \/ \E i \in Invocations : Generate(i) \/ Cleanup(i) \/ Abandon(i)
  \/ Reopen
  \/ Tick

Spec == Init /\ [][Next]_vars
-----------------------------------------------------------------------------
(* Properties.                                                             *)

\* Builds, entries, headers and jobs have their types.
TypeOK ==
  /\ build \in [Cycles -> Builds]
  /\ entries \in [Cycles -> SUBSET Pages]
  /\ header \subseteq Cycles /\ history \subseteq Cycles
  /\ clock \in Nat
  /\ job \in [Invocations -> Jobs]

\* "Published and historical payroll entries must be retained": a build is
\* published exactly when its header is or was visible, and every entry of a
\* visible or reopened register is there, so 'Payroll snapshot entries are
\* incomplete' cannot be raised whatever cleanup runs race with publishing.
RegisterComplete ==
  /\ \A c \in Cycles : build[c].state = "Published" <=> c \in header \cup history
  /\ \A c \in header \cup history : entries[c] = Pages

\* "Every chunk verifies the lease, so cleanup cannot race staging": no entry
\* is left behind by a finished cleanup, and none appears after it.
CleanedEmpty == \A c \in Cycles : build[c].state = "Cleaned" => entries[c] = {}

\* A build meets one fate: a published build and its entries never change
\* again, and a build that cleanup claimed only loses entries and is never
\* staged or published afterwards.
OneFate ==
  [][\A c \in Cycles :
       /\ build[c].state = "Published" =>
            build'[c] = build[c] /\ entries'[c] = entries[c]
       /\ build[c].state \in {"Cleaning", "Cleaned"} =>
            /\ build'[c].state \in {"Cleaning", "Cleaned"}
            /\ entries'[c] \subseteq entries[c]]_vars

\* "Only published cycle headers are visible": what a reader sees of the month
\* is no register or a complete one, and it changes by one atomic publish or
\* reopen, although its pages are staged and extended one by one.
visible == {[cycle |-> c, pages |-> entries[c]] : c \in header}
R == INSTANCE Register WITH register <- visible
RegisterSpec == R!Spec

-----------------------------------------------------------------------------
(* The inductive invariant.                                                *)

\* At most one header, none of it in the history.
OneHeader ==
  /\ \A c, d \in header : c = d
  /\ header \cap history = {}

\* A build still in its builder's hands holds what the builder has staged.
Staging ==
  /\ \A c \in Cycles : build[c].state = "None" => entries[c] = {}
  /\ \A i \in Invocations : job[i].op \in {"stage", "extend"} =>
       LET c == job[i].cycle
       IN  /\ build[c].state # "None"
           /\ build[c].state = "Building" /\ build[c].owner = {i} =>
                entries[c] = Pages \ job[i].left

\* A cleanup run about to finish, its claim still held, left nothing behind.
Finishing ==
  \A i \in Invocations : job[i].op = "finish" =>
    LET c == job[i].cycle
    IN  build[c].state = "Cleaning" /\ build[c].owner = {i} => entries[c] = {}

IInv ==
  /\ TypeOK
  /\ OneHeader
  /\ RegisterComplete
  /\ CleanedEmpty
  /\ Staging
  /\ Finishing
=============================================================================
