----------------------------- MODULE MCPayments -----------------------------
(***************************************************************************)
(* Instances of Payments for TLC: one client, one provider, and the moves  *)
(* of a charge at the payment provider.                                    *)
(***************************************************************************)
EXTENDS Payments, TLC

CONSTANTS client, provider

MCUsers == {client, provider}
MCRequester == [s \in ScheduleIds |-> client]
MCJobOwner == [s \in ScheduleIds |-> provider]
AllOneTime == [b \in BudgetIds |-> "ONE_TIME"]
AllRecurring == [b \in BudgetIds |-> "RECURRING"]

\* A charge the provider may reject, that may be charged back once approved,
\* and approved again when the bank gives the dispute up.
DisputedLifecycle ==
  [s \in ChargeStatus |->
     CASE s = "pending"      -> {"approved"}
       [] s = "in_process"   -> {"approved", "rejected"}
       [] s = "approved"     -> {"charged_back"}
       [] s = "charged_back" -> {"approved"}
       [] OTHER              -> {}]

\* A charge that may be refunded once approved.
RefundedLifecycle ==
  [s \in ChargeStatus |->
     CASE s \in {"pending", "in_process", "authorized"} -> {"approved"}
       [] s = "approved"                                -> {"refunded"}
       [] OTHER                                         -> {}]

SlowCard == {"in_process", "in_mediation"}
FastCard == {"approved"}
HeldCard == {"approved", "authorized"}

\* A PIX as the code expects it, and one that the provider has already
\* approved or rejected when it answers.
PendingPix == {"pending"}
RejectedPix == {"pending", "rejected"}
ApprovedPix == {"pending", "approved"}
AnyPix == {"pending", "approved", "rejected"}

RequestSymmetry == Permutations(Handlers)
=============================================================================
