--------------------------- MODULE MCMarketplace ---------------------------
(***************************************************************************)
(* Instances of Marketplace for TLC: one client, one provider with one     *)
(* job, and charges that are approved and refunded.                        *)
(***************************************************************************)
EXTENDS Marketplace, TLC

CONSTANTS client, provider, job

MCUsers == {client, provider}
MCJobIds == {job}
MCRequester == [s \in ScheduleIds |-> client]
MCJobOwner == [s \in ScheduleIds |-> provider]
MCJobOf == [s \in ScheduleIds |-> job]
AllOneTime == [b \in BudgetIds |-> "ONE_TIME"]

\* A charge that may be approved, and stays so.
PaidLifecycle ==
  [s \in ChargeStatus |-> IF s = "pending" THEN {"approved"} ELSE {}]

RefundedLifecycle ==
  [s \in ChargeStatus |->
     CASE s = "pending"  -> {"approved"}
       [] s = "approved" -> {"refunded"}
       [] OTHER          -> {}]

FastCard == {"approved"}

\* A PIX as the code expects it, and one that the provider has already rejected
\* when it answers.
PendingPix == {"pending"}
RejectedPix == {"pending", "rejected"}
=============================================================================
