--------------------------- MODULE ActionEffects ---------------------------
(***************************************************************************)
(* What the agent promises about business writes: the business change of   *)
(* an action (an operation under one idempotency key) happens at most      *)
(* once, however often the action is confirmed, submitted or replayed.     *)
(***************************************************************************)
EXTENDS Naturals

CONSTANT Actions

VARIABLE changes     \* how many business changes each action has caused

Init == changes = [a \in Actions |-> 0]

Perform(a) == /\ changes[a] = 0
              /\ changes' = [changes EXCEPT ![a] = 1]

Next == \E a \in Actions : Perform(a)

Spec == Init /\ [][Next]_changes
=============================================================================
