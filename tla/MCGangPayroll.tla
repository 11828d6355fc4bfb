---------------------------- MODULE MCGangPayroll ----------------------------
(* Bounded instances of GangPayroll.                                        *)
EXTENDS GangPayroll, TLC

Symmetry == Permutations(Gangs) \cup Permutations(Projects)
            \cup Permutations(Invocations) \cup Permutations(CashIds)
            \cup Permutations(Days)

\* Runs about payroll start with each date already assigned to one project,
\* a state reached by gang_allocate alone.
AssignedInit ==
  /\ account = [g \in Gangs |-> NoAccount]
  /\ allocation \in [Gangs -> [Days -> [project: {{p} : p \in Projects},
                                       started: {FALSE}, version: {1}]]]
  /\ daily = [p \in Projects |-> [g \in Gangs |-> [d \in Days |-> NoDaily]]]
  /\ wages = [p \in Projects |-> [g \in Gangs |-> 0]]
  /\ revision = [p \in Projects |-> 0]
  /\ cycle = [p \in Projects |-> NoCycle]
  /\ cashEntry = [id \in CashIds |-> NoCash]
  /\ receipts = {}
  /\ nextId = 1
  /\ req = [i \in Invocations |-> Idle]
  /\ seen = [i \in Invocations |-> [g \in Gangs |-> NoAccount]]
  /\ unread = [i \in Invocations |-> {}]
AssignedSpec == AssignedInit /\ [][Next]_vars
=============================================================================
