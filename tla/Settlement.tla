----------------------------- MODULE Settlement -----------------------------
(***************************************************************************)
(* What the payment flow promises about the budgets' money, without        *)
(* requests, rows, webhooks or provider statuses: money is collected for a *)
(* budget, and only after that, and once and for all, the budget is        *)
(* settled.                                                                *)
(***************************************************************************)
CONSTANT Budgets

VARIABLES
  collected,   \* the budgets a charge was approved for
  settled      \* the budgets marked PAID

Init == collected = {} /\ settled = {}

Collect(b) ==
  /\ collected' = collected \cup {b}
  /\ UNCHANGED settled

Settle(b) ==
  /\ b \in collected
  /\ settled' = settled \cup {b}
  /\ UNCHANGED collected

Next == \E b \in Budgets : Collect(b) \/ Settle(b)

Spec == Init /\ [][Next]_<<collected, settled>>
=============================================================================
