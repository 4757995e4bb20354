-------------------------- MODULE OneRequestProofs --------------------------
(***************************************************************************)
(* Theorems about Payments when its requests do not overlap: one handler,  *)
(* which takes any number of requests one after the other, cut off         *)
(* anywhere.  With two handlers each of the properties fails: see the      *)
(* runs PaymentsStaleRead and PaymentsDoubleCharge.                        *)
(***************************************************************************)
EXTENDS PaymentsProofs

OneRequest == \A g, h \in Handlers : g = h

StartsCheckout(h) ==
  \/ \E b \in BudgetIds, method \in PaymentMethod, kind \in PaymentKind, u \in Users :
       CreateCheckout(h, b, method, kind, u)
  \/ \E s \in ScheduleIds, method \in PaymentMethod, u \in Users :
       CreateVisitCheckout(h, s, method, u)

Reads(h) ==
  \/ \E i \in DOMAIN payments, u \in Users : FindById(h, i, u)
  \/ \E c \in notices : HandleWebhook(h, c)

\* Where a request goes on from each of its steps.
LEMMA NextPc ==
  ASSUME TypeOK, NEW h \in Handlers
  PROVE  /\ StartsCheckout(h) => handlers'[h].pc = "checkPaid"
         /\ AssertNotAlreadyPaid(h) => handlers'[h].pc \in {"idle", "findPix", "postCard"}
         /\ FindReusablePix(h) => handlers'[h].pc \in {"idle", "postPix"}
         /\ CreatePixCharge(h) \/ ChargeCard(h) \/ CardDeclined(h) =>
              handlers'[h].pc = "insert"
         /\ InsertPayment(h) \/ UpdatePayment(h) => handlers'[h].pc \in {"idle", "settle"}
         /\ Reads(h) => handlers'[h].pc = "getStatus"
         /\ GatewayAnswers(h) => handlers'[h].pc \in {"idle", "update"}
         /\ MarkBudgetPaid(h) \/ GatewayFails(h) \/ Abort(h) => handlers'[h].pc = "idle"
<1>t. handlers \in [Handlers -> Handler] /\ Idle.pc = "idle"
  BY DEF TypeOK, Idle
<1>1. StartsCheckout(h) => handlers'[h].pc = "checkPaid"
  BY <1>t DEF StartsCheckout, CreateCheckout, CreateVisitCheckout
<1>2. AssertNotAlreadyPaid(h) => handlers'[h].pc \in {"idle", "findPix", "postCard"}
  BY <1>t, HandlerCases DEF AssertNotAlreadyPaid, Checkout
<1>3. FindReusablePix(h) => handlers'[h].pc \in {"idle", "postPix"}
  BY <1>t, HandlerCases DEF FindReusablePix, Checkout
<1>4. CreatePixCharge(h) \/ ChargeCard(h) \/ CardDeclined(h) => handlers'[h].pc = "insert"
  BY <1>t DEF CreatePixCharge, ChargeCard, CardDeclined
<1>5. InsertPayment(h) \/ UpdatePayment(h) => handlers'[h].pc \in {"idle", "settle"}
  <2>1. \A target, status, notice :
          AfterWrite(target, status, notice).pc \in {"idle", "settle"}
    BY <1>t DEF AfterWrite
  <2> QED
    BY <1>t, <2>1, InsertCases DEF Inserts, IsRefused, UpdatePayment
<1>6. Reads(h) => handlers'[h].pc = "getStatus"
  BY <1>t DEF Reads, FindById, HandleWebhook
<1>7. GatewayAnswers(h) => handlers'[h].pc \in {"idle", "update"}
  BY <1>t DEF GatewayAnswers
<1>8. MarkBudgetPaid(h) \/ GatewayFails(h) \/ Abort(h) => handlers'[h].pc = "idle"
  BY <1>t DEF MarkBudgetPaid, GatewayFails, Abort, CutOff
<1> QED
  BY <1>1, <1>2, <1>3, <1>4, <1>5, <1>6, <1>7, <1>8

\* Every step is one of a request, or of the environment.
LEMMA NextCases ==
  ASSUME [Next]_vars
  PROVE  \/ \E h \in Handlers :
              \/ StartsCheckout(h) \/ AssertNotAlreadyPaid(h) \/ FindReusablePix(h)
              \/ CreatePixCharge(h) \/ ChargeCard(h) \/ CardDeclined(h)
              \/ InsertPayment(h) \/ UpdatePayment(h)
              \/ Reads(h) \/ GatewayAnswers(h)
              \/ MarkBudgetPaid(h) \/ GatewayFails(h) \/ Abort(h)
         \/ \E i \in DOMAIN payments : PixExpires(i)
         \/ \E c \in DOMAIN charges : Advances(c)
         \/ UNCHANGED <<tables, charges, handlers>>
  BY DEF Next, Starts, Continues, Environment, StartsCheckout, Reads, UnknownPayment,
         Repeats, ProviderRepeats, vars, tables

-----------------------------------------------------------------------------
(* A status is judged by the payment as it is.                             *)

\* What a request has read of its payment is still so, and what it is about
\* to write follows on what is there.
ReadIsCurrent ==
  \A h \in Handlers :
    /\ handlers[h].pc = "getStatus" =>
         handlers[h].read = payments[handlers[h].payment].status
    /\ handlers[h].pc = "update" =>
         IsForward(payments[handlers[h].payment].status, handlers[h].status)

LEMMA InitRead == Init => ReadIsCurrent
  BY DEF Init, ReadIsCurrent, Idle

\* A step that leaves the requests and the statuses of the payments alone.
LEMMA ReadStable ==
  ASSUME TypeOK, ReadIsCurrent, UNCHANGED handlers,
         \A i \in DOMAIN payments : payments'[i].status = payments[i].status
  PROVE  ReadIsCurrent'
  BY DEF ReadIsCurrent, TypeOK

LEMMA StepRead ==
  ASSUME OneRequest
  PROVE  TypeOK /\ ReadIsCurrent /\ [Next]_vars => ReadIsCurrent'
<1> SUFFICES ASSUME TypeOK, ReadIsCurrent, [Next]_vars PROVE ReadIsCurrent'
  OBVIOUS
<1>h. \A g, h \in Handlers : g = h
  BY DEF OneRequest
<1>1. ASSUME NEW h \in Handlers,
             \/ StartsCheckout(h) \/ AssertNotAlreadyPaid(h) \/ FindReusablePix(h)
             \/ CreatePixCharge(h) \/ ChargeCard(h) \/ CardDeclined(h)
             \/ InsertPayment(h) \/ UpdatePayment(h)
             \/ MarkBudgetPaid(h) \/ GatewayFails(h) \/ Abort(h)
      PROVE  ReadIsCurrent'
  <2>1. handlers'[h].pc \notin {"getStatus", "update"}
    BY <1>1, NextPc
  <2> QED
    BY <1>h, <2>1 DEF ReadIsCurrent
<1>2. ASSUME NEW h \in Handlers, Reads(h) PROVE ReadIsCurrent'
  <2>1. /\ handlers'[h].pc = "getStatus"
        /\ handlers'[h].read = payments'[handlers'[h].payment].status
    BY <1>2 DEF Reads, FindById, HandleWebhook, tables, TypeOK
  <2> QED
    BY <1>h, <2>1 DEF ReadIsCurrent
<1>3. ASSUME NEW h \in Handlers, GatewayAnswers(h) PROVE ReadIsCurrent'
  <2> DEFINE asked == handlers[h]
             status == MapStatus(charges[asked.charge].status)
             r == IF status # "null" /\ IsForward(asked.read, status)
                    THEN [pc |-> "update", notice |-> asked.notice,
                          payment |-> asked.payment, status |-> status]
                    ELSE Idle
  <2>1. asked.read = payments[asked.payment].status
    BY <1>3 DEF GatewayAnswers, ReadIsCurrent
  <2>2. UNCHANGED payments /\ \A g \in Handlers : handlers'[g] = r
    BY <1>3, <1>h DEF GatewayAnswers, tables, TypeOK
  <2>3. CASE status # "null" /\ IsForward(asked.read, status)
    BY <2>1, <2>2, <2>3 DEF ReadIsCurrent
  <2>4. CASE ~(status # "null" /\ IsForward(asked.read, status))
    BY <2>2, <2>4 DEF ReadIsCurrent, Idle
  <2> QED
    BY <2>3, <2>4
<1>4. ASSUME NEW i \in DOMAIN payments, PixExpires(i) PROVE ReadIsCurrent'
  <2>1. payments \in Seq(PaymentRow)
    BY DEF TypeOK, TablesTypeOK
  <2>2. \A j \in DOMAIN payments : payments'[j].status = payments[j].status
    BY <1>4, <2>1 DEF PixExpires, PaymentRow
  <2> QED
    BY <1>4, <2>2, ReadStable DEF PixExpires
<1>5. ASSUME UNCHANGED <<payments, handlers>> PROVE ReadIsCurrent'
  BY <1>5, ReadStable
<1> QED
  BY <1>1, <1>2, <1>3, <1>4, <1>5, NextCases DEF Advances, tables

\* A step leaves each payment its target, and gives it its status again or one
\* that may follow on it.
LEMMA StatusSteps ==
  ASSUME TypeOK, ReadIsCurrent, [Next]_vars, NEW i \in DOMAIN payments
  PROVE  /\ i \in DOMAIN payments'
         /\ payments'[i].target = payments[i].target
         /\ \/ payments'[i].status = payments[i].status
            \/ IsForward(payments[i].status, payments'[i].status)
<1>t. payments \in Seq(PaymentRow)
  BY DEF TypeOK, TablesTypeOK
<1>1. ASSUME NEW h \in Handlers, Inserts(h)
      PROVE  i \in DOMAIN payments' /\ payments'[i] = payments[i]
  <2>1. PICK row : row = handlers[h].row
    OBVIOUS
  <2>2. row \in PaymentRow
    BY <1>1, <2>1, HandlerCases DEF Inserts, Inserting
  <2> QED
    BY <1>1, <1>t, <2>1, <2>2, AppendFacts DEF Inserts
<1>2. ASSUME NEW h \in Handlers, UpdatePayment(h)
      PROVE  /\ i \in DOMAIN payments'
             /\ payments'[i].target = payments[i].target
             /\ \/ payments'[i] = payments[i]
                \/ IsForward(payments[i].status, payments'[i].status)
  <2>1. payments' =
          [payments EXCEPT ![handlers[h].payment].status = handlers[h].status]
    BY <1>2 DEF UpdatePayment
  <2>2. i \in DOMAIN payments' /\ (i # handlers[h].payment => payments'[i] = payments[i])
    BY <2>1, <1>t
  <2>3. ASSUME i = handlers[h].payment
        PROVE  /\ payments'[i].status = handlers[h].status
               /\ payments'[i].target = payments[i].target
    <3>1. payments'[i] = [payments[i] EXCEPT !.status = handlers[h].status]
      BY <2>1, <2>3, <1>t
    <3>2. payments[i] \in PaymentRow
      BY <1>t
    <3> QED
      BY <3>1, <3>2 DEF PaymentRow
  <2> QED
    BY <1>2, <2>2, <2>3 DEF UpdatePayment, ReadIsCurrent
<1>3. ASSUME NEW j \in DOMAIN payments, PixExpires(j)
      PROVE  /\ i \in DOMAIN payments'
             /\ payments'[i].target = payments[i].target
             /\ payments'[i].status = payments[i].status
  BY <1>3, <1>t DEF PixExpires, PaymentRow
<1> QED
  BY <1>1, <1>2, <1>3, InsertCases, NextCases
     DEF StartsCheckout, CreateCheckout, CreateVisitCheckout, AssertNotAlreadyPaid,
         FindReusablePix, CreatePixCharge, ChargeCard, CardDeclined, IsRefused, Reads,
         FindById, HandleWebhook, GatewayAnswers, MarkBudgetPaid, GatewayFails, Abort,
         CutOff, Advances, tables

\* applyStatus never takes a terminal payment anywhere but from PAID to
\* REFUNDED, as long as no other request writes between its read and its write.
THEOREM TerminalIsFinalCorrect ==
  ASSUME OneRequest
  PROVE  Spec => TerminalIsFinal
<1> DEFINE Final ==
      \A i \in DOMAIN payments :
        payments[i].status \in Terminal =>
          \/ payments'[i].status = payments[i].status
          \/ payments[i].status = "PAID" /\ payments'[i].status = "REFUNDED"
<1>1. TypeOK /\ ReadIsCurrent /\ [Next]_vars => [Final]_vars
  BY StatusSteps DEF IsForward
<1> QED
  BY <1>1, InitType, StepType, InitRead, StepRead, PTL DEF Spec, TerminalIsFinal

-----------------------------------------------------------------------------
(* No charge for what is paid already.                                     *)

\* What assertNotAlreadyPaid found out still holds when the charge is made.
UnpaidTarget ==
  \A h \in Handlers :
    handlers[h].pc \in {"findPix", "postPix", "postCard"} =>
      ~HasPaidRow(handlers[h].target)

LEMMA StepUnpaid ==
  ASSUME OneRequest
  PROVE  TypeOK /\ UnpaidTarget /\ [Next]_vars => UnpaidTarget'
<1> SUFFICES ASSUME TypeOK, UnpaidTarget, [Next]_vars PROVE UnpaidTarget'
  OBVIOUS
<1>h. \A g, h \in Handlers : g = h
  BY DEF OneRequest
<1>u. UNCHANGED payments => \A target : HasPaidRow(target)' <=> HasPaidRow(target)
  BY DEF HasPaidRow
<1>1. ASSUME NEW h \in Handlers,
             \/ StartsCheckout(h) \/ CreatePixCharge(h) \/ ChargeCard(h)
             \/ CardDeclined(h) \/ InsertPayment(h) \/ UpdatePayment(h)
             \/ Reads(h) \/ GatewayAnswers(h)
             \/ MarkBudgetPaid(h) \/ GatewayFails(h) \/ Abort(h)
      PROVE  UnpaidTarget'
  <2>1. handlers'[h].pc \notin {"findPix", "postPix", "postCard"}
    BY <1>1, NextPc
  <2> QED
    BY <1>h, <2>1 DEF UnpaidTarget
<1>2. ASSUME NEW h \in Handlers, AssertNotAlreadyPaid(h) \/ FindReusablePix(h)
      PROVE  UnpaidTarget'
  <2>1. UNCHANGED payments
    BY <1>2 DEF AssertNotAlreadyPaid, FindReusablePix, tables
  <2>2. \/ handlers'[h].pc = "idle"
        \/ /\ handlers'[h].target = handlers[h].target
           /\ ~HasPaidRow(handlers[h].target)
    BY <1>2, HandlerCases
       DEF AssertNotAlreadyPaid, FindReusablePix, UnpaidTarget, TypeOK, Checkout, Idle
  <2> QED
    BY <1>h, <1>u, <2>1, <2>2 DEF UnpaidTarget, HasPaidRow
<1>3. ASSUME NEW i \in DOMAIN payments, PixExpires(i) PROVE UnpaidTarget'
  <2>1. payments \in Seq(PaymentRow)
    BY DEF TypeOK, TablesTypeOK
  <2>2. /\ DOMAIN payments' = DOMAIN payments
        /\ \A j \in DOMAIN payments :
             /\ payments'[j].target = payments[j].target
             /\ payments'[j].status = payments[j].status
    BY <1>3, <2>1 DEF PixExpires, PaymentRow
  <2> QED
    BY <1>3, <2>2 DEF PixExpires, UnpaidTarget, HasPaidRow
<1>4. ASSUME UNCHANGED <<payments, handlers>> PROVE UnpaidTarget'
  BY <1>4 DEF UnpaidTarget, HasPaidRow
<1> QED
  BY <1>1, <1>2, <1>3, <1>4, NextCases DEF Advances, tables

\* A step that makes a charge makes one, for the target of a request that is
\* past assertNotAlreadyPaid.
LEMMA ChargeSteps ==
  ASSUME TypeOK, [Next]_vars, NEW c \in DOMAIN charges' \ DOMAIN charges
  PROVE  /\ UNCHANGED payments
         /\ \E h \in Handlers :
              /\ handlers[h].pc \in {"postPix", "postCard"}
              /\ charges'[c].target = handlers[h].target
<1>t. charges \in Seq(Charge)
  BY DEF TypeOK, GatewayTypeOK
<1>1. ASSUME NEW h \in Handlers, CreatePixCharge(h) \/ ChargeCard(h)
      PROVE  /\ UNCHANGED payments
             /\ handlers[h].pc \in {"postPix", "postCard"}
             /\ charges'[c].target = handlers[h].target
  <2>1. PICK s \in ChargeStatus : PostCharge(handlers[h].target, s)
    BY <1>1, GatewayAssumption DEF CreatePixCharge, ChargeCard, ChargeStatus
  <2> DEFINE new == [target |-> handlers[h].target, status |-> s, seen |-> {s}]
  <2>2. new \in Charge
    BY <1>1, HandlerCases DEF CreatePixCharge, ChargeCard, Checkout, Charge
  <2>3. charges'[c] = new
    BY <1>t, <2>1, <2>2, AppendFacts DEF PostCharge
  <2> QED
    BY <1>1, <2>3 DEF CreatePixCharge, ChargeCard, tables
<1>2. ASSUME NEW d \in DOMAIN charges, Advances(d) PROVE FALSE
  BY <1>2, <1>t DEF Advances, ProviderAdvances
<1>3. UNCHANGED charges => FALSE
  OBVIOUS
<1> QED
  BY <1>1, <1>2, <1>3, NextCases
     DEF StartsCheckout, CreateCheckout, CreateVisitCheckout, AssertNotAlreadyPaid,
         FindReusablePix, CardDeclined, InsertPayment, Reads, FindById, HandleWebhook,
         GatewayAnswers, UpdatePayment, MarkBudgetPaid, GatewayFails, Abort, CutOff,
         PixExpires, tables

\* No charge is made for a target that has a PAID payment, as long as no other
\* request writes between the guard and the charge.
THEOREM NoChargeOnceSettledCorrect ==
  ASSUME OneRequest
  PROVE  Spec => NoChargeOnceSettled
<1> DEFINE Unpaid ==
      \A c \in DOMAIN charges' \ DOMAIN charges : ~HasPaidRow(charges'[c].target)
<1>1. Init => UnpaidTarget
  BY DEF Init, UnpaidTarget, Idle
<1>2. TypeOK /\ UnpaidTarget /\ [Next]_vars => [Unpaid]_vars
  BY ChargeSteps DEF UnpaidTarget
<1> QED
  BY <1>1, <1>2, InitType, StepType, StepUnpaid, PTL DEF Spec, NoChargeOnceSettled

-----------------------------------------------------------------------------
(* One PIX charge to hand out.                                             *)

\* The provider takes no charge back to its first status.
PendingIsFirst == \A s \in ChargeStatus : "pending" \notin Lifecycle[s]

NoneReusable(target) ==
  target # NoTarget => \A i \in DOMAIN payments : ~Reusable(payments[i], target)

\* A PIX payment that has left PENDING has a charge that has left pending, so
\* no answer about it makes it PENDING again.
PixDecided ==
  \A i \in DOMAIN payments :
    /\ payments[i].method = "PIX"
    /\ payments[i].status # "PENDING"
    /\ payments[i].charge \in DOMAIN charges
    => charges[payments[i].charge].status # "pending"

\* What a request relies on: no PIX to reuse when it makes one, a PIX that is
\* inserted as PENDING, and an update that takes a PIX out of PENDING.
PixClaims(r) ==
  /\ r.pc = "postPix" => NoneReusable(r.target)
  /\ r.pc = "postCard" => r.method # "PIX"
  /\ r.pc = "insert" /\ r.row.method = "PIX" =>
       r.row.status = "PENDING" /\ NoneReusable(r.row.target)
  /\ r.pc = "update" /\ payments[r.payment].method = "PIX" =>
       /\ r.status # "PENDING"
       /\ charges[payments[r.payment].charge].status # "pending"

PixInv ==
  /\ OneReusablePix
  /\ PixDecided
  /\ \A h \in Handlers : PixClaims(handlers[h])

LEMMA InitPix == Init => PixInv
  BY DEF Init, PixInv, OneReusablePix, PixDecided, PixClaims, Idle

\* A status that is not pending is not reported as PENDING.
LEMMA PendingOnly == \A s : MapStatus(s) = "PENDING" <=> s = "pending"
  BY DEF MapStatus

LEMMA StepPix ==
  ASSUME OneRequest, PendingIsFirst
  PROVE  IInv /\ ReadIsCurrent /\ PixInv /\ [Next]_vars => PixInv'
<1> SUFFICES ASSUME IInv, ReadIsCurrent, PixInv, [Next]_vars PROVE PixInv'
  OBVIOUS
<1>h. \A g, h \in Handlers : g = h
  BY DEF OneRequest
<1>t. /\ TypeOK
      /\ payments \in Seq(PaymentRow)
      /\ charges \in Seq(Charge)
      /\ handlers \in [Handlers -> Handler]
  BY DEF IInv, TypeOK, TablesTypeOK, GatewayTypeOK
<1>i. OneReusablePix /\ PixDecided /\ \A h \in Handlers : PixClaims(handlers[h])
  BY DEF PixInv
<1>u. UNCHANGED <<payments, charges>> => OneReusablePix' /\ PixDecided'
  BY <1>i DEF OneReusablePix, PixDecided, Reusable
<1>1. ASSUME NEW h \in Handlers,
             \/ StartsCheckout(h) \/ Reads(h)
             \/ MarkBudgetPaid(h) \/ GatewayFails(h) \/ Abort(h)
      PROVE  PixInv'
  <2>1. UNCHANGED <<payments, charges>>
    BY <1>1 DEF StartsCheckout, CreateCheckout, CreateVisitCheckout, Reads, FindById,
                HandleWebhook, MarkBudgetPaid, GatewayFails, Abort, CutOff, tables
  <2>2. handlers'[h].pc \in {"idle", "checkPaid", "getStatus"}
    BY <1>1, <1>t, NextPc
  <2> QED
    BY <1>h, <1>u, <2>1, <2>2 DEF PixInv, PixClaims
<1>2. ASSUME NEW h \in Handlers, AssertNotAlreadyPaid(h) \/ FindReusablePix(h)
      PROVE  PixInv'
  <2>1. UNCHANGED <<payments, charges>>
    BY <1>2 DEF AssertNotAlreadyPaid, FindReusablePix, tables
  <2>2. \/ handlers'[h].pc \in {"idle", "findPix"}
        \/ handlers'[h].pc = "postCard" /\ handlers'[h].method # "PIX"
        \/ /\ handlers'[h].pc = "postPix"
           /\ handlers'[h].target = handlers[h].target
           /\ NoneReusable(handlers[h].target)
    BY <1>2, <1>t, HandlerCases
       DEF AssertNotAlreadyPaid, FindReusablePix, NoneReusable, Checkout, Idle
  <2>3. PixClaims(handlers[h])'
    BY <2>1, <2>2 DEF PixClaims, NoneReusable
  <2> QED
    BY <1>h, <1>u, <2>1, <2>3 DEF PixInv
<1>3. ASSUME NEW h \in Handlers, CreatePixCharge(h) \/ ChargeCard(h) PROVE PixInv'
  <2>1. PICK s \in ChargeStatus : PostCharge(handlers[h].target, s)
    BY <1>3, GatewayAssumption DEF CreatePixCharge, ChargeCard, ChargeStatus
  <2> DEFINE new == [target |-> handlers[h].target, status |-> s, seen |-> {s}]
  <2>2. handlers[h] \in Checkout /\ new \in Charge
    BY <1>3, <1>t, HandlerCases DEF CreatePixCharge, ChargeCard, Checkout, Charge
  <2>3. /\ UNCHANGED payments
        /\ \A c \in DOMAIN charges : charges'[c] = charges[c]
    BY <1>3, <1>t, <2>1, <2>2, AppendFacts DEF CreatePixCharge, ChargeCard, PostCharge, tables
  <2>4. \A i \in DOMAIN payments :
          payments[i].charge = 0 \/ payments[i].charge \in DOMAIN charges
    BY DEF IInv, NoInventedStatus, RowBacked
  <2>5. 0 \notin DOMAIN charges'
    BY <1>t, <2>1, <2>2, AppendFacts DEF PostCharge
  <2>6. OneReusablePix' /\ PixDecided'
    BY <1>i, <2>3, <2>4, <2>5 DEF OneReusablePix, PixDecided, Reusable
  <2>7. CASE CreatePixCharge(h)
    <3>1. /\ handlers'[h].pc = "insert"
          /\ handlers'[h].row.status = "PENDING"
          /\ handlers'[h].row.target = handlers[h].target
      BY <2>7, <1>t DEF CreatePixCharge, NewRow
    <3>2. NoneReusable(handlers[h].target)
      BY <2>7, <1>i DEF CreatePixCharge, PixClaims
    <3>3. PixClaims(handlers[h])'
      BY <2>3, <3>1, <3>2 DEF PixClaims, NoneReusable
    <3> QED
      BY <1>h, <2>6, <3>3 DEF PixInv
  <2>8. CASE ChargeCard(h)
    <3>1. handlers'[h].pc = "insert" /\ handlers'[h].row.method = handlers[h].method
      BY <2>8, <1>t DEF ChargeCard, NewRow
    <3>2. PixClaims(handlers[h])'
      BY <2>8, <1>i, <3>1 DEF ChargeCard, PixClaims
    <3> QED
      BY <1>h, <2>6, <3>2 DEF PixInv
  <2> QED
    BY <1>3, <2>7, <2>8
<1>4. ASSUME NEW h \in Handlers, CardDeclined(h) PROVE PixInv'
  <2>1. handlers'[h].pc = "insert" /\ handlers'[h].row.method = handlers[h].method
    BY <1>4, <1>t DEF CardDeclined, NewRow
  <2>2. PixClaims(handlers[h])'
    BY <1>4, <1>i, <2>1 DEF CardDeclined, PixClaims
  <2> QED
    BY <1>4, <1>h, <1>u, <2>2 DEF CardDeclined, tables, PixInv
<1>5. ASSUME NEW h \in Handlers, Inserts(h) PROVE PixInv'
  <2>1. PICK row : row = handlers[h].row
    OBVIOUS
  <2>2. PICK n : n = Len(payments) + 1
    OBVIOUS
  <2>3. /\ row \in PaymentRow
        /\ row.method = "PIX" => row.status = "PENDING" /\ NoneReusable(row.target)
    BY <1>5, <1>t, <1>i, <2>1, HandlerCases DEF Inserts, Inserting, PixClaims
  <2>4. /\ DOMAIN payments' = DOMAIN payments \cup {n}
        /\ n \notin DOMAIN payments
        /\ \A i \in DOMAIN payments : payments'[i] = payments[i]
        /\ payments'[n] = row
    BY <1>5, <1>t, <2>1, <2>2, <2>3, AppendFacts DEF Inserts
  <2>5. OneReusablePix'
    <3> SUFFICES ASSUME NEW i \in DOMAIN payments', NEW j \in DOMAIN payments', i # j,
                        payments'[i].target # NoTarget,
                        Reusable(payments'[i], payments'[i].target),
                        Reusable(payments'[j], payments'[j].target)
                 PROVE  payments'[i].target # payments'[j].target
      BY DEF OneReusablePix, Reusable
    <3> QED
      BY <1>i, <2>3, <2>4 DEF OneReusablePix, NoneReusable, Reusable
  <2>6. PixDecided'
    BY <1>5, <1>i, <2>3, <2>4 DEF Inserts, PixDecided
  <2>7. handlers'[h].pc \in {"idle", "settle"}
    BY <1>5, <1>t DEF Inserts, AfterWrite, Idle
  <2> QED
    BY <1>h, <2>5, <2>6, <2>7 DEF PixInv, PixClaims
<1>6. ASSUME NEW h \in Handlers, IsRefused(h) PROVE PixInv'
  <2>1. handlers'[h].pc = "idle"
    BY <1>6, <1>t DEF IsRefused, Idle
  <2> QED
    BY <1>6, <1>h, <1>u, <2>1 DEF IsRefused, tables, PixInv, PixClaims
<1>7. ASSUME NEW h \in Handlers, GatewayAnswers(h) PROVE PixInv'
  <2> DEFINE asked == handlers[h]
             status == MapStatus(charges[asked.charge].status)
  <2>1. UNCHANGED <<payments, charges>>
    BY <1>7 DEF GatewayAnswers, tables
  <2>2. /\ asked.charge \in DOMAIN charges
        /\ asked.payment \in DOMAIN payments
        /\ payments[asked.payment].charge = asked.charge
        /\ asked.read = payments[asked.payment].status
    BY <1>7 DEF GatewayAnswers, IInv, RequestsBacked, RequestBacked, ReadIsCurrent
  <2>3. CASE status # "null" /\ IsForward(asked.read, status)
    <3>1. payments[asked.payment].method = "PIX" =>
            charges[asked.charge].status # "pending"
      BY <1>i, <2>2, <2>3, PendingOnly DEF PixDecided, IsForward
    <3>2. /\ handlers'[h].pc = "update"
          /\ handlers'[h].payment = asked.payment
          /\ handlers'[h].status = status
      BY <1>7, <1>t, <2>3 DEF GatewayAnswers
    <3>3. PixClaims(handlers[h])'
      BY <2>1, <2>2, <3>1, <3>2, PendingOnly DEF PixClaims
    <3> QED
      BY <1>h, <1>u, <2>1, <3>3 DEF PixInv
  <2>4. CASE ~(status # "null" /\ IsForward(asked.read, status))
    <3>1. handlers'[h].pc = "idle"
      BY <1>7, <1>t, <2>4 DEF GatewayAnswers, Idle
    <3> QED
      BY <1>h, <1>u, <2>1, <3>1 DEF PixInv, PixClaims
  <2> QED
    BY <2>3, <2>4
<1>8. ASSUME NEW h \in Handlers, UpdatePayment(h) PROVE PixInv'
  <2>1. PICK i : i = handlers[h].payment
    OBVIOUS
  <2>2. PICK status : status = handlers[h].status
    OBVIOUS
  <2>3. i \in DOMAIN payments /\ payments[i] \in PaymentRow
    BY <1>8, <1>t, <2>1 DEF UpdatePayment, TypeOK
  <2>4. payments' = [payments EXCEPT ![i].status = status] /\ UNCHANGED charges
    BY <1>8, <2>1, <2>2 DEF UpdatePayment
  <2>5. /\ DOMAIN payments' = DOMAIN payments
        /\ \A j \in DOMAIN payments \ {i} : payments'[j] = payments[j]
        /\ payments'[i] = [payments[i] EXCEPT !.status = status]
    BY <1>t, <2>3, <2>4
  <2>6. /\ payments'[i].status = status
        /\ payments'[i].method = payments[i].method
        /\ payments'[i].charge = payments[i].charge
    BY <2>3, <2>5 DEF PaymentRow
  <2>7. payments[i].method = "PIX" =>
          status # "PENDING" /\ charges[payments[i].charge].status # "pending"
    BY <1>8, <1>i, <2>1, <2>2 DEF UpdatePayment, PixClaims
  <2>8. OneReusablePix'
    <3>1. ~Reusable(payments'[i], payments'[i].target)
      BY <2>6, <2>7 DEF Reusable
    <3>2. \A j \in DOMAIN payments' :
            Reusable(payments'[j], payments'[j].target) => payments'[j] = payments[j]
      BY <2>5, <3>1
    <3> QED
      BY <1>i, <2>5, <3>2 DEF OneReusablePix, Reusable
  <2>9. PixDecided'
    BY <1>i, <2>4, <2>5, <2>6, <2>7 DEF PixDecided
  <2>10. handlers'[h].pc \in {"idle", "settle"}
    BY <1>8, <1>t, NextPc
  <2> QED
    BY <1>h, <2>8, <2>9, <2>10 DEF PixInv, PixClaims
<1>9. ASSUME NEW i \in DOMAIN payments, PixExpires(i) PROVE PixInv'
  <2>1. UNCHANGED <<charges, handlers>> /\ payments' = [payments EXCEPT ![i].pixValid = FALSE]
    BY <1>9 DEF PixExpires
  <2>2. /\ DOMAIN payments' = DOMAIN payments
        /\ \A j \in DOMAIN payments :
             /\ payments'[j].target = payments[j].target
             /\ payments'[j].status = payments[j].status
             /\ payments'[j].method = payments[j].method
             /\ payments'[j].charge = payments[j].charge
             /\ payments'[j].pixValid => payments[j].pixValid
    BY <1>t, <2>1 DEF PaymentRow
  <2>3. OneReusablePix'
    <3>1. \A j \in DOMAIN payments :
            Reusable(payments'[j], payments'[j].target) => Reusable(payments[j], payments[j].target)
      BY <2>2 DEF Reusable
    <3> QED
      BY <1>i, <2>2, <3>1 DEF OneReusablePix
  <2>4. PixDecided'
    BY <1>i, <2>1, <2>2 DEF PixDecided
  <2>5. ASSUME NEW h \in Handlers PROVE PixClaims(handlers[h])'
    <3>1. \A target : NoneReusable(target) => NoneReusable(target)'
      BY <2>2 DEF NoneReusable, Reusable
    <3>2. handlers[h].pc = "update" => handlers[h].payment \in DOMAIN payments
      BY <1>t DEF TypeOK
    <3> QED
      BY <1>i, <2>1, <2>2, <3>1, <3>2 DEF PixClaims
  <2> QED
    BY <2>3, <2>4, <2>5 DEF PixInv
<1>10. ASSUME NEW c \in DOMAIN charges, Advances(c) PROVE PixInv'
  <2>1. UNCHANGED <<payments, handlers>>
    BY <1>10 DEF Advances, tables
  <2>2. /\ DOMAIN charges' = DOMAIN charges
        /\ \A d \in DOMAIN charges : charges'[d].status = "pending" => charges[d].status = "pending"
    <3>1. PICK s \in Lifecycle[charges[c].status] :
            charges' = [charges EXCEPT ![c].status = s, ![c].seen = @ \cup {s}]
      BY <1>10 DEF Advances, ProviderAdvances
    <3>2. charges[c] \in Charge
      BY <1>t
    <3>3. s # "pending"
      BY <3>2 DEF PendingIsFirst, Charge
    <3>4. /\ DOMAIN charges' = DOMAIN charges
          /\ \A d \in DOMAIN charges \ {c} : charges'[d] = charges[d]
          /\ charges'[c] = [charges[c] EXCEPT !.status = s, !.seen = @ \cup {s}]
      BY <1>t, <3>1
    <3>5. charges'[c].status = s
      BY <3>2, <3>4 DEF Charge
    <3> QED
      BY <3>3, <3>4, <3>5
  <2>3. OneReusablePix' /\ PixDecided'
    BY <1>i, <2>1, <2>2 DEF OneReusablePix, PixDecided, Reusable
  <2>4. ASSUME NEW h \in Handlers PROVE PixClaims(handlers[h])'
    <3>1. handlers[h].pc = "update" => payments[handlers[h].payment].charge \in DOMAIN charges
      BY DEF IInv, RequestsBacked, RequestBacked
    <3> QED
      BY <1>i, <2>1, <2>2, <3>1 DEF PixClaims, NoneReusable, Reusable
  <2> QED
    BY <2>3, <2>4 DEF PixInv
<1>11. ASSUME UNCHANGED <<payments, charges, handlers>> PROVE PixInv'
  BY <1>11, <1>u, <1>i DEF PixInv, PixClaims, NoneReusable, Reusable
<1> QED
  BY <1>1, <1>2, <1>3, <1>4, <1>5, <1>6, <1>7, <1>8, <1>9, <1>10, <1>11, NextCases,
     InsertCases DEF tables

\* A target never has two PIX charges that createPixPayment would hand out, as
\* long as no other request inserts one between its query and its insert, and
\* the provider takes no charge back to pending.
THEOREM OneReusablePixCorrect ==
  ASSUME OneRequest, PendingIsFirst
  PROVE  Spec => []OneReusablePix
<1>1. PixInv => OneReusablePix
  BY DEF PixInv
<1>2. IInv => TypeOK
  BY DEF IInv
<1> QED
  BY <1>1, <1>2, InitIInv, StepIInv, InitRead, StepRead, InitPix, StepPix, PTL DEF Spec
=============================================================================
