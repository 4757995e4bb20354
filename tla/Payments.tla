------------------------------ MODULE Payments ------------------------------
(***************************************************************************)
(* payments/payments.service.ts: the checkouts, the status poll and the    *)
(* webhook, against the provider of Gateway.                               *)
(*                                                                         *)
(* Node runs a request without interruption up to its next await, so an    *)
(* action is what a request does between two awaits: the answer it waited  *)
(* for, the synchronous code after it, the next call.  A request runs on a *)
(* handler, whose record holds the local variables it still needs:         *)
(*                                                                         *)
(*   idle                     no request                                   *)
(*   checkPaid                assertNotAlreadyPaid sent its query          *)
(*   findPix                  createPixPayment looks for a reusable charge *)
(*   postPix, postCard        about to POST the charge                     *)
(*   insert                   charged; payment.create not committed        *)
(*   getStatus                payment read; GET of its status in flight    *)
(*   update                   applyStatus accepted a status; not written   *)
(*   settle                   a PAID row is written; markBudgetPaid is not *)
(*                                                                         *)
(* notice is the delivery a webhook request answers, 0 for the app's       *)
(* requests: a webhook that does not end with 200 is delivered again.      *)
(***************************************************************************)
EXTENDS Gateway

CONSTANTS
  OpenVisits,    \* the schedules that are ACCEPTED, the others PENDING
  Handlers,      \* the requests that may be in progress at once
  CrashPoints,   \* where a request may be cut off, by its pc
  MaxPayments    \* bound on the payment rows: no POST once there are so many

VARIABLES handlers

tables == <<schedules, budgets, payments>>
vars == <<schedules, budgets, payments, charges, notices, handlers>>

Idle == [pc |-> "idle"]

Checkout ==
  [pc : {"checkPaid", "findPix", "postPix", "postCard"}, target : Targets,
   method : PaymentMethod, kind : PaymentKind]
Inserting == [pc : {"insert"}, row : PaymentRow]
Asking ==
  [pc : {"getStatus"}, notice : Nat, payment : Nat, read : PaymentStatus,
   charge : Nat]
Updating ==
  [pc : {"update"}, notice : Nat, payment : Nat, status : PaymentStatus]
Settling == [pc : {"settle"}, notice : Nat, budget : BudgetIds]

Handler == {Idle} \cup Checkout \cup Inserting \cup Asking \cup Updating \cup Settling

ASSUME PaymentsAssumption ==
  /\ OpenVisits \subseteq ScheduleIds
  /\ CrashPoints \subseteq
       {"checkPaid", "findPix", "postPix", "postCard",
        "insert", "getStatus", "update", "settle"}
  /\ MaxPayments \in Nat

\* Every variable has its type, and a handler names rows that exist.
TypeOK ==
  /\ TablesTypeOK
  /\ GatewayTypeOK
  /\ handlers \in [Handlers -> Handler]
  /\ \A h \in Handlers : handlers[h].pc \in {"getStatus", "update"} =>
       handlers[h].payment \in DOMAIN payments

-----------------------------------------------------------------------------
NonTerminal == {"PENDING", "PROCESSING"}
Terminal == {"PAID", "FAILED", "CANCELED", "REFUNDED"}

\* The kind assertKindMatchesBudget demands.
KindFor(type) == IF type = "RECURRING" THEN "SUBSCRIPTION" ELSE "ONE_TIME"

\* isParticipant: nobody is, once the schedule is gone.
IsParticipant(row, u) ==
  \/ row.target \in BudgetIds /\ u \in {Client(row.target), Worker(row.target)}
  \/ row.target \in ScheduleIds /\ u \in {Requester[row.target], JobOwner[row.target]}

\* Mutant: applyStatus without its TERMINAL_STATUSES test.
IsForwardAlways(from, to) == from # to

\* Mutant: applyStatus without the exception for refunds.
IsForwardNoRefund(from, to) == from # to /\ from \notin Terminal

\* The branch of applyStatus that writes.
IsForward(from, to) ==
  /\ from # to
  /\ from \in Terminal => from = "PAID" /\ to = "REFUNDED"

\* A PIX payment createPixPayment hands out again.
Reusable(row, target) ==
  /\ row.target = target
  /\ row.method = "PIX"
  /\ row.status = "PENDING"
  /\ row.pixValid

NewRow(checkout, status, charge) ==
  [target |-> checkout.target, method |-> checkout.method,
   kind |-> checkout.kind, status |-> status, charge |-> charge,
   pixValid |-> checkout.method = "PIX"]

\* Mutant: the budget is settled whatever status was written.
AfterWriteAnyStatus(target, status, notice) ==
  IF target \in BudgetIds
    THEN [pc |-> "settle", notice |-> notice, budget |-> target]
    ELSE Idle

\* Where a request goes once a payment of the target has the status.
AfterWrite(target, status, notice) ==
  IF status = "PAID" /\ target \in BudgetIds
    THEN [pc |-> "settle", notice |-> notice, budget |-> target]
    ELSE Idle

Init ==
  /\ schedules =
       [s \in ScheduleIds |-> IF s \in OpenVisits THEN "ACCEPTED" ELSE "PENDING"]
  /\ budgets \in [BudgetIds ->
       [status : {"ACCEPTED"}, schedule : ScheduleIds]]
  /\ payments = <<>>
  /\ charges = <<>>
  /\ notices = {}
  /\ handlers = [h \in Handlers |-> Idle]

-----------------------------------------------------------------------------
(* The checkouts.                                                          *)

\* Mutant: a budget may be paid before it is answered.
CreateCheckoutAnyStatus(h, b, method, kind, u) ==
  /\ handlers[h] = Idle
  /\ u = Client(b)
  /\ budgets[b].status \in {"SENT", "ACCEPTED"}
  /\ kind = KindFor(TypeOf[b])
  /\ handlers' = [handlers EXCEPT ![h] =
       [pc |-> "checkPaid", target |-> b, method |-> method, kind |-> kind]]
  /\ UNCHANGED <<tables, charges, notices>>

\* createCheckout up to its guard query: an ACCEPTED budget, its client, the
\* kind its type asks for.
CreateCheckout(h, b, method, kind, u) ==
  /\ handlers[h] = Idle
  /\ u = Client(b)
  /\ budgets[b].status = "ACCEPTED"
  /\ kind = KindFor(TypeOf[b])
  /\ handlers' = [handlers EXCEPT ![h] =
       [pc |-> "checkPaid", target |-> b, method |-> method, kind |-> kind]]
  /\ UNCHANGED <<tables, charges, notices>>

\* createVisitCheckout up to its guard query.
CreateVisitCheckout(h, s, method, u) ==
  /\ handlers[h] = Idle
  /\ u = Requester[s]
  /\ schedules[s] = "ACCEPTED"
  /\ handlers' = [handlers EXCEPT ![h] =
       [pc |-> "checkPaid", target |-> s, method |-> method, kind |-> "ONE_TIME"]]
  /\ UNCHANGED <<tables, charges, notices>>

\* Mutant: the guard does not look for a PAID payment.
AssertNothing(h) ==
  /\ handlers[h].pc = "checkPaid"
  /\ handlers' = [handlers EXCEPT ![h].pc =
       IF handlers[h].method = "PIX" THEN "findPix" ELSE "postCard"]
  /\ UNCHANGED <<tables, charges, notices>>

\* assertNotAlreadyPaid: throws when the target has a PAID payment, else
\* charge() branches on the method.
AssertNotAlreadyPaid(h) ==
  /\ handlers[h].pc = "checkPaid"
  /\ handlers' = [handlers EXCEPT ![h] =
       IF HasPaidRow(handlers[h].target) THEN Idle
       ELSE [handlers[h] EXCEPT !.pc =
              IF handlers[h].method = "PIX" THEN "findPix" ELSE "postCard"]]
  /\ UNCHANGED <<tables, charges, notices>>

\* Mutant: every checkout makes a new charge.
FindNothing(h) ==
  /\ handlers[h].pc = "findPix"
  /\ handlers' = [handlers EXCEPT ![h].pc = "postPix"]
  /\ UNCHANGED <<tables, charges, notices>>

\* createPixPayment answers with a PENDING PIX payment that has not expired.
FindReusablePix(h) ==
  /\ handlers[h].pc = "findPix"
  /\ handlers' = [handlers EXCEPT ![h] =
       IF \E i \in DOMAIN payments : Reusable(payments[i], handlers[h].target)
         THEN Idle
         ELSE [handlers[h] EXCEPT !.pc = "postPix"]]
  /\ UNCHANGED <<tables, charges, notices>>

\* createPixCharge, answered with 2xx: the status in the answer is dropped,
\* and the row to insert is PENDING.
CreatePixCharge(h) ==
  /\ handlers[h].pc = "postPix"
  /\ Len(payments) < MaxPayments
  /\ \E s \in PixOutcomes : PostCharge(handlers[h].target, s)
  /\ handlers' = [handlers EXCEPT ![h] =
       [pc |-> "insert", row |-> NewRow(handlers[h], "PENDING", Len(charges) + 1)]]
  /\ UNCHANGED tables

\* chargeCard, answered with 2xx.
ChargeCard(h) ==
  /\ handlers[h].pc = "postCard"
  /\ Len(payments) < MaxPayments
  /\ \E s \in CardOutcomes :
       /\ PostCharge(handlers[h].target, s)
       /\ handlers' = [handlers EXCEPT ![h] =
            [pc |-> "insert",
             row |-> NewRow(handlers[h], CardStatus(s), Len(charges) + 1)]]
  /\ UNCHANGED tables

\* chargeCard, answered with 4xx: a FAILED payment without a charge.
CardDeclined(h) ==
  /\ handlers[h].pc = "postCard"
  /\ Len(payments) < MaxPayments
  /\ handlers' = [handlers EXCEPT ![h] =
       [pc |-> "insert", row |-> NewRow(handlers[h], "FAILED", 0)]]
  /\ UNCHANGED <<tables, charges, notices>>

\* The foreign keys of a payment; only a schedule can be gone.
TargetExists(target) == target \in ScheduleIds => schedules[target] # "DELETED"

\* Mutant: payment.create is retried after it went through.
InsertPaymentTwice(h) ==
  /\ handlers[h].pc = "insert"
  /\ payments' = Append(payments, handlers[h].row)
  /\ Len(payments) < MaxPayments
  /\ UNCHANGED <<schedules, budgets, charges, notices, handlers>>

\* Mutant: the checkout's guards are checked again before payment.create.
InsertPaymentRechecked(h) ==
  /\ handlers[h].pc = "insert"
  /\ LET row == handlers[h].row
         refused ==
           \/ HasPaidRow(row.target)
           \/ row.target \in ScheduleIds /\ schedules[row.target] # "ACCEPTED"
     IN /\ payments' = IF refused THEN payments ELSE Append(payments, row)
        /\ handlers' = [handlers EXCEPT ![h] = AfterWrite(row.target, row.status, 0)]
  /\ UNCHANGED <<schedules, budgets, charges, notices>>

\* payment.create; a card captured for a budget goes on to settle it.  The
\* foreign key refuses a payment of a visit deleted since the checkout read it.
InsertPayment(h) ==
  /\ handlers[h].pc = "insert"
  /\ LET row == handlers[h].row IN
       /\ payments' =
            IF TargetExists(row.target) THEN Append(payments, row) ELSE payments
       /\ handlers' = [handlers EXCEPT ![h] =
            IF TargetExists(row.target) THEN AfterWrite(row.target, row.status, 0)
            ELSE Idle]
  /\ UNCHANGED <<schedules, budgets, charges, notices>>

-----------------------------------------------------------------------------
(* The poll and the webhook.                                               *)

\* Mutant: NON_TERMINAL without PROCESSING.
FindPendingById(h, i, u) ==
  /\ handlers[h] = Idle
  /\ IsParticipant(payments[i], u)
  /\ payments[i].status = "PENDING"
  /\ handlers' = [handlers EXCEPT ![h] =
       [pc |-> "getStatus", notice |-> 0, payment |-> i,
        read |-> payments[i].status, charge |-> payments[i].charge]]
  /\ UNCHANGED <<tables, charges, notices>>

\* findById and refreshIfPending up to the GET.  Reading a terminal payment
\* changes nothing.
FindById(h, i, u) ==
  /\ handlers[h] = Idle
  /\ IsParticipant(payments[i], u)
  /\ payments[i].status \in NonTerminal
  /\ handlers' = [handlers EXCEPT ![h] =
       [pc |-> "getStatus", notice |-> 0, payment |-> i,
        read |-> payments[i].status, charge |-> payments[i].charge]]
  /\ UNCHANGED <<tables, charges, notices>>

\* Mutant: findFirst without its where clause.
HandleWebhookAnyRow(h, c) ==
  /\ handlers[h] = Idle
  /\ c \in notices
  /\ notices' = notices \ {c}
  /\ \E i \in DOMAIN payments :
       handlers' = [handlers EXCEPT ![h] =
         [pc |-> "getStatus", notice |-> c, payment |-> i,
          read |-> payments[i].status, charge |-> c]]
  /\ UNCHANGED <<tables, charges>>

\* handleWebhook up to the GET, for a charge some payment carries.
HandleWebhook(h, c) ==
  /\ handlers[h] = Idle
  /\ c \in notices
  /\ notices' = notices \ {c}
  /\ \E i \in DOMAIN payments :
       /\ payments[i].charge = c
       /\ handlers' = [handlers EXCEPT ![h] =
            [pc |-> "getStatus", notice |-> c, payment |-> i,
             read |-> payments[i].status, charge |-> c]]
  /\ UNCHANGED <<tables, charges>>

\* handleWebhook for a charge no payment carries: answered 200 and forgotten.
UnknownPayment(h, c) ==
  /\ handlers[h] = Idle
  /\ c \in notices
  /\ \A i \in DOMAIN payments : payments[i].charge # c
  /\ notices' = notices \ {c}
  /\ UNCHANGED <<tables, charges, handlers>>

\* The answer of the GET: refreshIfPending, or handleWebhook, and applyStatus
\* judge it by the status read before the GET was sent.
GatewayAnswers(h) ==
  /\ handlers[h].pc = "getStatus"
  /\ LET asked  == handlers[h]
         status == MapStatus(charges[asked.charge].status)
     IN handlers' = [handlers EXCEPT ![h] =
          IF status # "null" /\ IsForward(asked.read, status)
            THEN [pc |-> "update", notice |-> asked.notice,
                  payment |-> asked.payment, status |-> status]
            ELSE Idle]
  /\ UNCHANGED <<tables, charges, notices>>

\* Mutant: applyStatus does not settle the budget.
UpdatePaymentOnly(h) ==
  /\ handlers[h].pc = "update"
  /\ payments' = [payments EXCEPT ![handlers[h].payment].status = handlers[h].status]
  /\ handlers' = [handlers EXCEPT ![h] = Idle]
  /\ UNCHANGED <<schedules, budgets, charges, notices>>

\* payment.update of applyStatus, on the id alone.
UpdatePayment(h) ==
  /\ handlers[h].pc = "update"
  /\ LET i == handlers[h].payment
         status == handlers[h].status
     IN /\ payments' = [payments EXCEPT ![i].status = status]
        /\ handlers' = [handlers EXCEPT ![h] =
             AfterWrite(payments[i].target, status, handlers[h].notice)]
  /\ UNCHANGED <<schedules, budgets, charges, notices>>

\* markBudgetPaid, whatever the status of the budget is by now.
MarkBudgetPaid(h) ==
  /\ handlers[h].pc = "settle"
  /\ budgets' = [budgets EXCEPT ![handlers[h].budget].status = "PAID"]
  /\ handlers' = [handlers EXCEPT ![h] = Idle]
  /\ UNCHANGED <<schedules, payments, charges, notices>>

-----------------------------------------------------------------------------
(* Failures.                                                               *)

\* A request that ends without a 200: a webhook is delivered again.
CutOff(h) ==
  /\ handlers' = [handlers EXCEPT ![h] = Idle]
  /\ notices' = IF "notice" \in DOMAIN handlers[h]
                  THEN notices \cup ({handlers[h].notice} \ {0})
                  ELSE notices
  /\ UNCHANGED <<tables, charges>>

\* GatewayError of a GET or a POST that had no effect: 503 for a checkout and
\* a webhook, the payment as it was read for a poll.
GatewayFails(h) ==
  /\ handlers[h].pc \in {"postPix", "postCard", "getStatus"}
  /\ CutOff(h)

\* A database error, a crash of the process (one Abort per request it takes
\* along), and, at insert, the POST whose answer was lost.
Abort(h) ==
  /\ handlers[h].pc \in CrashPoints
  /\ CutOff(h)

-----------------------------------------------------------------------------
(* The environment.                                                        *)

\* pixExpiresAt passes; it is only read of a payment that is PENDING.
PixExpires(i) ==
  /\ payments[i].pixValid
  /\ payments[i].status = "PENDING"
  /\ payments' = [payments EXCEPT ![i].pixValid = FALSE]
  /\ UNCHANGED <<schedules, budgets, charges, notices, handlers>>

Advances(c) ==
  /\ ProviderAdvances(c)
  /\ UNCHANGED <<tables, handlers>>

Repeats(c) ==
  /\ ProviderRepeats(c)
  /\ UNCHANGED <<tables, handlers>>

-----------------------------------------------------------------------------
Starts(h) ==
  \/ \E b \in BudgetIds, method \in PaymentMethod, kind \in PaymentKind, u \in Users :
       CreateCheckout(h, b, method, kind, u)
  \/ \E s \in ScheduleIds, method \in PaymentMethod, u \in Users :
       CreateVisitCheckout(h, s, method, u)
  \/ \E i \in DOMAIN payments, u \in Users : FindById(h, i, u)
  \/ \E c \in notices : HandleWebhook(h, c) \/ UnknownPayment(h, c)

Continues(h) ==
  \/ AssertNotAlreadyPaid(h)
  \/ FindReusablePix(h)
  \/ CreatePixCharge(h)
  \/ ChargeCard(h)
  \/ CardDeclined(h)
  \/ InsertPayment(h)
  \/ GatewayAnswers(h)
  \/ GatewayFails(h)
  \/ UpdatePayment(h)
  \/ MarkBudgetPaid(h)

Environment ==
  \/ \E i \in DOMAIN payments : PixExpires(i)
  \/ \E c \in DOMAIN charges : Advances(c) \/ Repeats(c)

Next ==
  \/ \E h \in Handlers : Starts(h) \/ Continues(h) \/ Abort(h)
  \/ Environment

Spec == Init /\ [][Next]_vars

(***************************************************************************)
(* Fairness: Node runs a request to its end; the app goes on polling the   *)
(* payment it shows; the provider goes on delivering a notice until it     *)
(* gets its 200; and of the attempts to ask about a charge, or to write a  *)
(* payment's status, not every one fails.                                  *)
(***************************************************************************)
Polls(i) ==
  /\ i \in DOMAIN payments
  /\ \E h \in Handlers, u \in Users : FindById(h, i, u)

Delivers(c) ==
  /\ c \in DOMAIN charges
  /\ \E h \in Handlers : HandleWebhook(h, c) \/ UnknownPayment(h, c)

Answers(c) ==
  \E h \in Handlers :
    /\ handlers[h].pc = "getStatus"
    /\ handlers[h].charge = c
    /\ GatewayAnswers(h)

Applies(i) ==
  \E h \in Handlers :
    /\ handlers[h].pc = "update"
    /\ handlers[h].payment = i
    /\ UpdatePayment(h)

\* Every id a payment of a run can have: each request may be past the bound.
PaymentIds == 1..(MaxPayments + Cardinality(Handlers))

Fairness ==
  /\ \A h \in Handlers : WF_vars(Continues(h))
  /\ \A i \in PaymentIds : SF_vars(Polls(i)) /\ SF_vars(Applies(i))
  /\ \A c \in 1..MaxCharges : SF_vars(Delivers(c)) /\ SF_vars(Answers(c))

FairSpec == Spec /\ Fairness

-----------------------------------------------------------------------------
(* Properties.                                                             *)

RowBacked(row) ==
  IF row.charge = 0 THEN row.status = "FAILED"
  ELSE /\ row.charge \in DOMAIN charges
       /\ row.target \in {charges[row.charge].target, NoTarget}
       /\ \/ row.status \in Reported(row.charge)
          \/ row.method = "PIX" /\ row.status = "PENDING"

\* A payment shows no status that has not been true of its charge, and belongs
\* to the target the charge was made for (a deleted schedule's payments to
\* none); one without a charge is FAILED.  The PENDING of a PIX is the one
\* exception: createPixPayment writes it unseen, so until a poll or a webhook
\* it says nothing of the charge.  What createCardPayment and applyStatus write
\* was reported.
NoInventedStatus == \A i \in DOMAIN payments : RowBacked(payments[i])

\* A budget is PAID only if the provider approved a charge made for that
\* budget: whatever markBudgetPaid was called for, by whichever request.
SettledOnlyIfApproved ==
  \A b \in BudgetIds : budgets[b].status = "PAID" => Approved(b)

\* The strengthening that makes the two inductive: the current status of a
\* charge is in its history (chargeCard and getPaymentStatus report the
\* current one), and what a request carries to a write is already backed.
ChargesSeen == \A c \in DOMAIN charges : charges[c].status \in charges[c].seen

RequestBacked(r) ==
  /\ r.pc \in {"findPix", "postPix"} => r.method = "PIX"
  /\ r.pc = "insert" => RowBacked(r.row)
  /\ r.pc = "getStatus" =>
       /\ r.charge \in DOMAIN charges
       /\ r.payment \in DOMAIN payments
       /\ payments[r.payment].charge = r.charge
  /\ r.pc = "update" =>
       /\ r.payment \in DOMAIN payments
       /\ payments[r.payment].charge \in DOMAIN charges
       /\ r.status \in Reported(payments[r.payment].charge)
  /\ r.pc = "settle" => Approved(r.budget)

RequestsBacked == \A h \in Handlers : RequestBacked(handlers[h])

IInv ==
  /\ TypeOK
  /\ ChargesSeen
  /\ NoInventedStatus
  /\ RequestsBacked
  /\ SettledOnlyIfApproved

\* findFirst of handleWebhook by providerPaymentId has one answer at most,
\* though the column is not unique.
OneRowPerCharge ==
  \A i, j \in DOMAIN payments :
    payments[i].charge = payments[j].charge /\ i # j => payments[i].charge = 0

\* The strengthening that makes it inductive: the charge a request is about to
\* insert a payment for is nobody else's.
FreshInserts ==
  \A h \in Handlers :
    handlers[h].pc = "insert" /\ handlers[h].row.charge # 0 =>
      /\ \A i \in DOMAIN payments : payments[i].charge # handlers[h].row.charge
      /\ \A g \in Handlers \ {h} :
           handlers[g].pc = "insert" => handlers[g].row.charge # handlers[h].row.charge

\* As long as no request is cut off between the POST and payment.create,
\* every charge has a payment, or the request that is about to insert it, or
\* was made for a visit that is deleted.
ChargeIsTracked ==
  \A c \in DOMAIN charges :
    \/ ~TargetExists(charges[c].target)
    \/ \E i \in DOMAIN payments : payments[i].charge = c
    \/ \E h \in Handlers : handlers[h].pc = "insert" /\ handlers[h].row.charge = c

\* As long as no request is cut off between the write of PAID and
\* markBudgetPaid, a PAID payment has its budget PAID, or about to be.
PaidRowsSettled ==
  \A i \in DOMAIN payments :
    payments[i].status = "PAID" /\ payments[i].target \in BudgetIds =>
      \/ budgets[payments[i].target].status = "PAID"
      \/ \E h \in Handlers :
           handlers[h].pc = "settle" /\ handlers[h].budget = payments[i].target

\* The flow implements Settlement: a budget goes to PAID only after money was
\* collected for it, and stays PAID.
Promise ==
  INSTANCE Settlement WITH
    Budgets   <- BudgetIds,
    collected <- {b \in BudgetIds : Approved(b)},
    settled   <- {b \in BudgetIds : budgets[b].status = "PAID"}

KeepsPromise == Promise!Spec

\* createPixPayment reuses a valid PENDING PIX charge instead of making a
\* second one, so a target never has two; deleted visits' have none.
OneReusablePix ==
  \A i, j \in DOMAIN payments :
    /\ i # j
    /\ payments[i].target # NoTarget
    /\ Reusable(payments[i], payments[i].target)
    /\ Reusable(payments[j], payments[j].target)
    => payments[i].target # payments[j].target

\* applyStatus: a terminal payment stays as it is, but for PAID -> REFUNDED.
TerminalIsFinal ==
  [][\A i \in DOMAIN payments :
       payments[i].status \in Terminal =>
         \/ payments'[i].status = payments[i].status
         \/ payments[i].status = "PAID" /\ payments'[i].status = "REFUNDED"]_vars

\* assertNotAlreadyPaid: no charge is made for a target that has a PAID
\* payment.
NoChargeOnceSettled ==
  [][\A c \in DOMAIN charges' \ DOMAIN charges :
       ~HasPaidRow(charges'[c].target)]_vars

\* Payment i is one of budget b, not failed, and its charge stands approved.
ApprovedFor(i, b) ==
  IF i \in DOMAIN payments
    THEN /\ payments[i].target = b
         /\ payments[i].status \in NonTerminal \cup {"PAID"}
         /\ charges[payments[i].charge].status = "approved"
    ELSE FALSE

\* A budget payment the provider approved settles its budget, be it through
\* the webhook or, when that came before the row, through the poll; unless
\* the provider takes the approval back.
ApprovedSettles ==
  \A i \in PaymentIds, b \in BudgetIds :
    ApprovedFor(i, b) ~> (budgets[b].status = "PAID" \/ ~ApprovedFor(i, b))

\* Payment i shows PAID, its charge is refunded, and the notice is not lost.
RefundAnnounced(i) ==
  IF i \in DOMAIN payments
    THEN /\ payments[i].status = "PAID"
         /\ charges[payments[i].charge].status = "refunded"
         /\ payments[i].charge \in notices
    ELSE FALSE

Refunded(i) == IF i \in DOMAIN payments THEN payments[i].status = "REFUNDED" ELSE FALSE

\* A refund whose notice is outstanding reaches a PAID payment, which no
\* poll refreshes any more.
RefundReachesRow ==
  \A i \in PaymentIds : RefundAnnounced(i) ~> Refunded(i)
=============================================================================
