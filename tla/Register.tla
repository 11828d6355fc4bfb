------------------------------- MODULE Register -------------------------------
(* What a reader of a month's payroll is promised: there is no register, or  *)
(* a complete one that stays as it was published until it is reopened.       *)
(* "Immutable employee entries; only published cycle headers are visible."   *)
CONSTANTS Cycles, Pages
VARIABLE register   \* {} or the one visible register

Complete(c) == [cycle |-> c, pages |-> Pages]

Init == register = {}
Publish(c) == register = {} /\ register' = {Complete(c)}
Reopen == register # {} /\ register' = {}
Next == Reopen \/ \E c \in Cycles : Publish(c)
Spec == Init /\ [][Next]_register
=============================================================================
