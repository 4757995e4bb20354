-------------------------------- MODULE Deal --------------------------------
(***************************************************************************)
(* What the service promises the two parties of a visit, told by what they *)
(* see: the money that went out, and the one budget the app shows.  The    *)
(* fee comes first; then the provider makes an offer, the client answers   *)
(* it once, pays for what was accepted, and the offer is settled.  A       *)
(* rejected offer, and no other, makes room for the next.                  *)
(***************************************************************************)
CONSTANT Visits

VARIABLES
  fees,     \* the visits whose fee has been collected
  offers,   \* the status of the budget shown for each visit, or NONE
  prices    \* the visits for whose shown budget money has been collected

deal == <<fees, offers, prices>>

Init ==
  /\ fees = {}
  /\ offers = [v \in Visits |-> "NONE"]
  /\ prices = {}

CollectFee(v) ==
  /\ fees' = fees \cup {v}
  /\ UNCHANGED <<offers, prices>>

\* v's offer goes from one of the statuses to another.
Moves(v, from, to) ==
  /\ offers[v] \in from
  /\ offers' = [offers EXCEPT ![v] = to]
  /\ UNCHANGED <<fees, prices>>

Offer(v) == v \in fees /\ Moves(v, {"NONE", "REJECTED"}, "SENT")

Answer(v) == \E answer \in {"ACCEPTED", "REJECTED"} : Moves(v, {"SENT"}, answer)

CollectPrice(v) ==
  /\ offers[v] = "ACCEPTED"
  /\ prices' = prices \cup {v}
  /\ UNCHANGED <<fees, offers>>

Settle(v) == v \in prices /\ Moves(v, {"ACCEPTED"}, "PAID")

Next ==
  \E v \in Visits :
    CollectFee(v) \/ Offer(v) \/ Answer(v) \/ CollectPrice(v) \/ Settle(v)

Spec == Init /\ [][Next]_deal
=============================================================================
