------------------------------ MODULE Gateway ------------------------------
(***************************************************************************)
(* The payment provider as payments/mercado-pago.gateway.ts sees it.  What *)
(* the code does with an answer (mapStatus, the fallback of chargeCard) is *)
(* translated from that file; the provider itself is external: it creates  *)
(* a charge for each POST, moves it along Lifecycle on its own, and sends  *)
(* a webhook for every change at least once.                               *)
(*                                                                         *)
(* target and seen of a charge are not sent over the wire: they record     *)
(* what the money was asked for and every status the charge has had, and   *)
(* only the properties read them.                                          *)
(***************************************************************************)
EXTENDS Schema

CONSTANTS
  Lifecycle,     \* the statuses the provider may move a charge to, by status
  CardOutcomes,  \* the statuses a card charge may have when it is created
  PixOutcomes,   \* the statuses a PIX charge may have when it is created
  MaxCharges     \* bound on the charges the provider issues in a run

VARIABLES
  charges,       \* the charges, in the order the provider issued their ids
  notices        \* the charges a webhook delivery is outstanding for

\* The provider's statuses; in_mediation is one STATUS_MAP does not know.
ChargeStatus ==
  {"approved", "pending", "in_process", "authorized", "rejected",
   "cancelled", "refunded", "charged_back", "in_mediation"}

ASSUME GatewayAssumption ==
  /\ Lifecycle \in [ChargeStatus -> SUBSET ChargeStatus]
  /\ CardOutcomes \subseteq ChargeStatus
  /\ PixOutcomes \subseteq ChargeStatus
  /\ MaxCharges \in Nat

Charge == [target : Targets, status : ChargeStatus, seen : SUBSET ChargeStatus]

GatewayTypeOK ==
  /\ charges \in Seq(Charge)
  /\ notices \subseteq Nat \ {0}

\* What a payment status says of a charge, in the provider's own terms and
\* whatever STATUS_MAP makes of them.  PROCESSING says that nothing is decided.
Means ==
  [p \in PaymentStatus |->
     CASE p = "PAID"       -> {"approved"}
       [] p = "PENDING"    -> {"pending"}
       [] p = "PROCESSING" -> {"in_process", "authorized", "in_mediation"}
       [] p = "FAILED"     -> {"rejected"}
       [] p = "CANCELED"   -> {"cancelled"}
       [] p = "REFUNDED"   -> {"refunded", "charged_back"}]

-----------------------------------------------------------------------------
\* Mutant: STATUS_MAP takes an authorization for a capture.
MapStatusAuthorizedPaid(s) ==
  CASE s \in {"approved", "authorized"}     -> "PAID"
    [] s = "pending"                        -> "PENDING"
    [] s = "in_process"                     -> "PROCESSING"
    [] s = "rejected"                       -> "FAILED"
    [] s = "cancelled"                      -> "CANCELED"
    [] s \in {"refunded", "charged_back"}   -> "REFUNDED"
    [] OTHER                                -> "null"

\* mapStatus: "null" for a status STATUS_MAP does not list.
MapStatus(s) ==
  CASE s = "approved"                       -> "PAID"
    [] s = "pending"                        -> "PENDING"
    [] s \in {"in_process", "authorized"}   -> "PROCESSING"
    [] s = "rejected"                       -> "FAILED"
    [] s = "cancelled"                      -> "CANCELED"
    [] s \in {"refunded", "charged_back"}   -> "REFUNDED"
    [] OTHER                                -> "null"

\* Mutant: chargeCard without its fallback for an unknown status.
CardStatusUnmapped(s) == MapStatus(s)

\* The status chargeCard reports for a 2xx answer.
CardStatus(s) == IF MapStatus(s) = "null" THEN "PROCESSING" ELSE MapStatus(s)

\* POST /v1/payments: every call carries a fresh X-Idempotency-Key, so every
\* call makes a new charge, announced by a payment.created notification.
PostCharge(target, s) ==
  /\ Len(charges) < MaxCharges
  /\ charges' = Append(charges, [target |-> target, status |-> s, seen |-> {s}])
  /\ notices' = notices \cup {Len(charges) + 1}

\* The payer, the issuer or the provider's clock moves the charge, and the
\* provider announces it.
ProviderAdvances(c) ==
  /\ \E s \in Lifecycle[charges[c].status] :
       charges' = [charges EXCEPT ![c].status = s, ![c].seen = @ \cup {s}]
  /\ notices' = notices \cup {c}

\* A delivery repeated though an earlier one was answered.
ProviderRepeats(c) ==
  /\ notices' = notices \cup {c}
  /\ UNCHANGED charges

-----------------------------------------------------------------------------
\* The payment statuses that have been true of charge c.
Reported(c) == {p \in PaymentStatus : Means[p] \cap charges[c].seen # {}}

Approved(target) ==
  \E c \in DOMAIN charges :
    charges[c].target = target /\ "approved" \in charges[c].seen
=============================================================================
