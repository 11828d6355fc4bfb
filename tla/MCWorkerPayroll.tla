---------------------------- MODULE MCWorkerPayroll ----------------------------
(* Bounded instances of WorkerPayroll.                                       *)
EXTENDS WorkerPayroll, TLC

Symmetry == Permutations(Workers) \cup Permutations(Projects)
            \cup Permutations(Invocations) \cup Permutations(DebitIds)
            \cup Permutations(AdvanceIds) \cup Permutations(ActionIds)

\* Every worker was onboarded at the project on the first of the month and has
\* earned MaxWage there that day: where register_allocate and attendance lead.
EarningInit ==
  LET p == CHOOSE q \in Projects : TRUE
      saved == [wage |-> MaxWage, paid |-> FALSE, version |-> MaxVersion]
  IN  /\ worker = [w \in Workers |-> [known |-> TRUE, project |-> {p}]]
      /\ gang = NoGang
      /\ allocation = [w \in Workers |-> [d \in Days |->
           IF d = 1 THEN [project |-> {p}, started |-> TRUE, version |-> 1]
                    ELSE NoAllocation]]
      /\ daily = [q \in Projects |-> [w \in Workers |-> [d \in Days |->
           IF q = p /\ d = 1 THEN saved ELSE NoDaily]]]
      /\ debit = [id \in DebitIds |-> NoDebit]
      /\ advance = [id \in AdvanceIds |-> NoAdvance]
      /\ clearing = [k \in ReceiptKeys |-> NoClearing]
      /\ advanced = [q \in Projects |-> Nothing]
      /\ revision = [q \in Projects |->
           IF q = p THEN (1 + MaxVersion) * Cardinality(Workers) ELSE 0]
      /\ cycle = [q \in Projects |-> NoCycle]
      /\ nextId = 1
      /\ req = [i \in Invocations |-> Idle]

EarningSpec == EarningInit /\ [][Next]_vars
=============================================================================
