--------------------------- MODULE PaymentsProofs ---------------------------
(***************************************************************************)
(* Theorems about Payments, for every number of requests, budgets, visits, *)
(* charges and payments, every way a request is cut off and every life the *)
(* provider may give a charge.                                             *)
(***************************************************************************)
EXTENDS Payments, TLAPS, SequenceTheorems

-----------------------------------------------------------------------------
(* The two ways the code changes a table kept as a sequence.               *)

LEMMA AppendFacts ==
  ASSUME NEW S, NEW s \in Seq(S), NEW e \in S
  PROVE  /\ Append(s, e) \in Seq(S)
         /\ DOMAIN Append(s, e) = DOMAIN s \cup {Len(s) + 1}
         /\ Len(s) + 1 \notin DOMAIN s
         /\ \A i \in DOMAIN s : Append(s, e)[i] = s[i]
         /\ Append(s, e)[Len(s) + 1] = e
  OBVIOUS

LEMMA ExceptFacts ==
  ASSUME NEW S, NEW s \in Seq(S), NEW i \in DOMAIN s, NEW e \in S
  PROVE  /\ [s EXCEPT ![i] = e] \in Seq(S)
         /\ DOMAIN [s EXCEPT ![i] = e] = DOMAIN s
         /\ \A j \in DOMAIN s : [s EXCEPT ![i] = e][j] = IF j = i THEN e ELSE s[j]
  BY ExceptSeq

-----------------------------------------------------------------------------
(* The two ways payment.create ends.                                       *)

Inserts(h) ==
  /\ handlers[h].pc = "insert"
  /\ LET row == handlers[h].row IN
       /\ payments' = Append(payments, row)
       /\ handlers' = [handlers EXCEPT ![h] = AfterWrite(row.target, row.status, 0)]
  /\ UNCHANGED <<schedules, budgets, charges, notices>>

IsRefused(h) ==
  /\ handlers[h].pc = "insert"
  /\ handlers' = [handlers EXCEPT ![h] = Idle]
  /\ UNCHANGED <<tables, charges, notices>>

LEMMA InsertCases ==
  ASSUME NEW h \in Handlers, InsertPayment(h)
  PROVE  Inserts(h) \/ IsRefused(h)
<1>1. CASE TargetExists(handlers[h].row.target)
  BY <1>1 DEF InsertPayment, Inserts
<1>2. CASE ~TargetExists(handlers[h].row.target)
  BY <1>2 DEF InsertPayment, IsRefused, tables
<1> QED
  BY <1>1, <1>2

-----------------------------------------------------------------------------
(* A handler's record is told by its pc.                                   *)

LEMMA HandlerCases ==
  ASSUME TypeOK, NEW h \in Handlers
  PROVE  /\ handlers[h] \in Handler
         /\ handlers[h].pc \in {"checkPaid", "findPix", "postPix", "postCard"}
              => handlers[h] \in Checkout
         /\ handlers[h].pc = "insert" => handlers[h] \in Inserting
         /\ handlers[h].pc = "getStatus" => handlers[h] \in Asking
         /\ handlers[h].pc = "update" => handlers[h] \in Updating
         /\ handlers[h].pc = "settle" => handlers[h] \in Settling
  BY DEF TypeOK, Handler, Checkout, Inserting, Asking, Updating, Settling, Idle

\* STATUS_MAP and the fallback of chargeCard say of a status what it means.
LEMMA MappedMeans ==
  ASSUME NEW s \in ChargeStatus
  PROVE  /\ CardStatus(s) \in PaymentStatus
         /\ s \in Means[CardStatus(s)]
         /\ MapStatus(s) # "null" =>
              MapStatus(s) \in PaymentStatus /\ s \in Means[MapStatus(s)]
  BY DEF ChargeStatus, CardStatus, MapStatus, PaymentStatus, Means

LEMMA MeansFacts ==
  /\ Means["PAID"] = {"approved"}
  /\ Means["REFUNDED"] = {"refunded", "charged_back"}
  BY DEF Means, PaymentStatus

LEMMA AfterWriteType ==
  ASSUME NEW target \in Targets \cup {NoTarget}, NEW status, NEW notice \in Nat
  PROVE  AfterWrite(target, status, notice) \in {Idle} \cup Settling
  BY DEF AfterWrite, Settling, Idle

LEMMA NewRowType ==
  ASSUME NEW checkout \in Checkout, NEW status \in PaymentStatus, NEW c \in Nat
  PROVE  NewRow(checkout, status, c) \in PaymentRow
  BY DEF Checkout, NewRow, PaymentRow, Targets

\* A step that gives handler h the record r, and loses no row, keeps
\* the handlers typed.
HandlersTypeOK ==
  /\ handlers \in [Handlers -> Handler]
  /\ \A h \in Handlers : handlers[h].pc \in {"getStatus", "update"} =>
       handlers[h].payment \in DOMAIN payments

LEMMA HandlerStep ==
  ASSUME TypeOK, NEW h \in Handlers, NEW r \in Handler,
         handlers' = [handlers EXCEPT ![h] = r],
         DOMAIN payments \subseteq DOMAIN payments',
         r.pc \in {"getStatus", "update"} => r.payment \in DOMAIN payments'
  PROVE  HandlersTypeOK'
<1>1. handlers' \in [Handlers -> Handler]
  BY DEF TypeOK
<1>2. ASSUME NEW g \in Handlers
      PROVE  handlers'[g].pc \in {"getStatus", "update"} =>
               handlers'[g].payment \in DOMAIN payments'
  <2>1. CASE g = h
    <3>1. handlers'[g] = r
      BY <2>1 DEF TypeOK
    <3> QED
      BY <3>1
  <2>2. CASE g # h
    <3>1. handlers'[g] = handlers[g]
      BY <2>2 DEF TypeOK
    <3> QED
      BY <3>1 DEF TypeOK
  <2> QED
    BY <2>1, <2>2
<1> QED
  BY <1>1, <1>2 DEF HandlersTypeOK

\* A POST keeps the charges typed and loses none.
LEMMA PostChargeType ==
  ASSUME TypeOK, NEW target \in Targets, NEW s \in ChargeStatus,
         PostCharge(target, s)
  PROVE  /\ GatewayTypeOK'
         /\ DOMAIN charges \subseteq DOMAIN charges'
         /\ Len(charges) + 1 \in DOMAIN charges'
         /\ Len(charges) + 1 \in Nat \ {0}
<1> DEFINE new == [target |-> target, status |-> s, seen |-> {s}]
<1>1. new \in Charge
  BY DEF Charge
<1>2. charges \in Seq(Charge) /\ notices \subseteq Nat \ {0}
  BY DEF TypeOK, GatewayTypeOK
<1>3. charges' = Append(charges, new) /\ notices' = notices \cup {Len(charges) + 1}
  BY DEF PostCharge
<1>4. /\ charges' \in Seq(Charge)
      /\ DOMAIN charges' = DOMAIN charges \cup {Len(charges) + 1}
  BY <1>1, <1>2, <1>3, AppendFacts
<1>5. Len(charges) + 1 \in Nat \ {0}
  BY <1>2
<1>6. notices' \subseteq Nat \ {0}
  BY <1>2, <1>3, <1>5
<1> QED
  BY <1>4, <1>5, <1>6 DEF GatewayTypeOK

LEMMA InitType == Init => TypeOK
<1> SUFFICES ASSUME Init PROVE TypeOK
  OBVIOUS
<1>1. TablesTypeOK
  BY DEF Init, TablesTypeOK, ScheduleStatus, BudgetRow, BudgetStatus
<1>2. GatewayTypeOK
  BY DEF Init, GatewayTypeOK
<1>3. /\ handlers \in [Handlers -> Handler]
      /\ \A h \in Handlers : handlers[h].pc = "idle"
  BY DEF Init, Handler, Idle
<1> QED
  BY <1>1, <1>2, <1>3 DEF TypeOK

LEMMA StepType == TypeOK /\ [Next]_vars => TypeOK'
<1> SUFFICES ASSUME TypeOK, [Next]_vars PROVE TypeOK'
  OBVIOUS
<1> USE HandlerCases DEF tables
<1>a. TypeOK <=> TablesTypeOK /\ GatewayTypeOK /\ HandlersTypeOK
  BY DEF TypeOK, HandlersTypeOK
<1>b. TypeOK' <=> TablesTypeOK' /\ GatewayTypeOK' /\ HandlersTypeOK'
  BY DEF TypeOK, HandlersTypeOK
<1>t. UNCHANGED tables => TablesTypeOK'
  BY DEF TypeOK, TablesTypeOK, tables
<1>g. UNCHANGED <<charges, notices>> => GatewayTypeOK'
  BY DEF TypeOK, GatewayTypeOK
<1>i. Idle \in Handler /\ Idle.pc = "idle"
  BY DEF Idle, Handler
<1>1. ASSUME NEW h \in Handlers, NEW b \in BudgetIds, NEW method \in PaymentMethod,
             NEW kind \in PaymentKind, NEW u \in Users,
             CreateCheckout(h, b, method, kind, u)
      PROVE  TypeOK'
  <2> DEFINE r == [pc |-> "checkPaid", target |-> b, method |-> method, kind |-> kind]
  <2>1. r \in Handler
    BY DEF Handler, Checkout, Targets
  <2>2. HandlersTypeOK'
    BY <1>1, <2>1, HandlerStep DEF CreateCheckout
  <2> QED
    BY <1>1, <1>b, <1>t, <1>g, <2>2 DEF CreateCheckout
<1>2. ASSUME NEW h \in Handlers, NEW s \in ScheduleIds, NEW method \in PaymentMethod,
             NEW u \in Users, CreateVisitCheckout(h, s, method, u)
      PROVE  TypeOK'
  <2> DEFINE r ==
        [pc |-> "checkPaid", target |-> s, method |-> method, kind |-> "ONE_TIME"]
  <2>1. r \in Handler
    BY DEF Handler, Checkout, Targets, PaymentKind
  <2>2. HandlersTypeOK'
    BY <1>2, <2>1, HandlerStep DEF CreateVisitCheckout
  <2> QED
    BY <1>2, <1>b, <1>t, <1>g, <2>2 DEF CreateVisitCheckout
<1>3. ASSUME NEW h \in Handlers, AssertNotAlreadyPaid(h) PROVE TypeOK'
  <2> DEFINE r == handlers'[h]
  <2>1. handlers' = [handlers EXCEPT ![h] = r] /\ r \in {Idle} \cup Checkout
    BY <1>3 DEF AssertNotAlreadyPaid, Checkout, TypeOK
  <2>2. r \in Handler /\ r.pc \notin {"getStatus", "update"}
    BY <2>1 DEF Handler, Checkout, Idle
  <2>3. HandlersTypeOK'
    BY <1>3, <2>1, <2>2, HandlerStep DEF AssertNotAlreadyPaid
  <2> QED
    BY <1>3, <1>b, <1>t, <1>g, <2>3 DEF AssertNotAlreadyPaid
<1>4. ASSUME NEW h \in Handlers, FindReusablePix(h) PROVE TypeOK'
  <2> DEFINE r == handlers'[h]
  <2>1. handlers' = [handlers EXCEPT ![h] = r] /\ r \in {Idle} \cup Checkout
    BY <1>4 DEF FindReusablePix, Checkout, TypeOK
  <2>2. r \in Handler /\ r.pc \notin {"getStatus", "update"}
    BY <2>1 DEF Handler, Checkout, Idle
  <2>3. HandlersTypeOK'
    BY <1>4, <2>1, <2>2, HandlerStep DEF FindReusablePix
  <2> QED
    BY <1>4, <1>b, <1>t, <1>g, <2>3 DEF FindReusablePix
<1>5. ASSUME NEW h \in Handlers, CreatePixCharge(h) PROVE TypeOK'
  <2> DEFINE row == NewRow(handlers[h], "PENDING", Len(charges) + 1)
             r == [pc |-> "insert", row |-> row]
  <2>0. PICK s \in PixOutcomes : PostCharge(handlers[h].target, s)
    BY <1>5 DEF CreatePixCharge
  <2>1. handlers[h] \in Checkout /\ handlers[h].target \in Targets
    BY <1>5 DEF CreatePixCharge, Checkout
  <2>2. /\ GatewayTypeOK'
        /\ DOMAIN charges \subseteq DOMAIN charges'
        /\ Len(charges) + 1 \in Nat
    BY <2>0, <2>1, PostChargeType, GatewayAssumption
  <2>3. row \in PaymentRow
    BY <2>1, <2>2, NewRowType DEF PaymentStatus
  <2>4. r \in Handler
    BY <2>3 DEF Handler, Inserting
  <2>5. HandlersTypeOK'
    BY <1>5, <2>2, <2>4, HandlerStep DEF CreatePixCharge
  <2> QED
    BY <1>5, <1>b, <1>t, <2>2, <2>5 DEF CreatePixCharge
<1>6. ASSUME NEW h \in Handlers, ChargeCard(h) PROVE TypeOK'
  <2>1. PICK s \in CardOutcomes :
          /\ PostCharge(handlers[h].target, s)
          /\ handlers' = [handlers EXCEPT ![h] =
               [pc |-> "insert",
                row |-> NewRow(handlers[h], CardStatus(s), Len(charges) + 1)]]
    BY <1>6 DEF ChargeCard
  <2> DEFINE row == NewRow(handlers[h], CardStatus(s), Len(charges) + 1)
             r == [pc |-> "insert", row |-> row]
  <2>2. handlers[h] \in Checkout /\ handlers[h].target \in Targets
    BY <1>6 DEF ChargeCard, Checkout
  <2>3. s \in ChargeStatus /\ CardStatus(s) \in PaymentStatus
    BY GatewayAssumption, MappedMeans
  <2>4. /\ GatewayTypeOK'
        /\ DOMAIN charges \subseteq DOMAIN charges'
        /\ Len(charges) + 1 \in Nat
    BY <2>1, <2>2, <2>3, PostChargeType
  <2>5. row \in PaymentRow
    BY <2>2, <2>3, <2>4, NewRowType
  <2>6. r \in Handler
    BY <2>5 DEF Handler, Inserting
  <2>7. HandlersTypeOK'
    BY <1>6, <2>1, <2>4, <2>6, HandlerStep DEF ChargeCard
  <2> QED
    BY <1>6, <1>b, <1>t, <2>4, <2>7 DEF ChargeCard
<1>7. ASSUME NEW h \in Handlers, CardDeclined(h) PROVE TypeOK'
  <2> DEFINE row == NewRow(handlers[h], "FAILED", 0)
             r == [pc |-> "insert", row |-> row]
  <2>1. row \in PaymentRow
    BY <1>7, NewRowType DEF CardDeclined, PaymentStatus
  <2>2. r \in Handler
    BY <2>1 DEF Handler, Inserting
  <2>3. HandlersTypeOK'
    BY <1>7, <2>2, HandlerStep DEF CardDeclined
  <2> QED
    BY <1>7, <1>b, <1>t, <1>g, <2>3 DEF CardDeclined
<1>8. ASSUME NEW h \in Handlers, Inserts(h) PROVE TypeOK'
  <2> DEFINE row == handlers[h].row
             r == AfterWrite(row.target, row.status, 0)
  <2>1. row \in PaymentRow /\ row.target \in Targets \cup {NoTarget}
    BY <1>8 DEF Inserts, Inserting, PaymentRow
  <2>2. payments \in Seq(PaymentRow)
    BY DEF TypeOK, TablesTypeOK
  <2>3. /\ payments' \in Seq(PaymentRow)
        /\ DOMAIN payments \subseteq DOMAIN payments'
    BY <1>8, <2>1, <2>2, AppendFacts DEF Inserts
  <2>4. r \in {Idle} \cup Settling
    BY <2>1, AfterWriteType
  <2>5. r \in Handler /\ r.pc \notin {"getStatus", "update"}
    BY <2>4 DEF Handler, Settling, Idle
  <2>6. HandlersTypeOK'
    BY <1>8, <2>3, <2>5, HandlerStep DEF Inserts
  <2>7. TablesTypeOK'
    BY <1>8, <2>3 DEF Inserts, TypeOK, TablesTypeOK
  <2> QED
    BY <1>8, <1>b, <1>g, <2>6, <2>7 DEF Inserts
<1>9. ASSUME NEW h \in Handlers, NEW i \in DOMAIN payments, NEW u \in Users,
             FindById(h, i, u)
      PROVE  TypeOK'
  <2> DEFINE r == [pc |-> "getStatus", notice |-> 0, payment |-> i,
                   read |-> payments[i].status, charge |-> payments[i].charge]
  <2>1. payments[i] \in PaymentRow /\ i \in Nat
    BY DEF TypeOK, TablesTypeOK
  <2>2. r \in Handler
    BY <2>1 DEF Handler, Asking, PaymentRow
  <2>3. HandlersTypeOK'
    BY <1>9, <2>2, HandlerStep DEF FindById
  <2> QED
    BY <1>9, <1>b, <1>t, <1>g, <2>3 DEF FindById
<1>10. ASSUME NEW h \in Handlers, NEW c \in notices, HandleWebhook(h, c)
       PROVE  TypeOK'
  <2>1. PICK i \in DOMAIN payments :
          handlers' = [handlers EXCEPT ![h] =
            [pc |-> "getStatus", notice |-> c, payment |-> i,
             read |-> payments[i].status, charge |-> c]]
    BY <1>10 DEF HandleWebhook
  <2> DEFINE r == [pc |-> "getStatus", notice |-> c, payment |-> i,
                   read |-> payments[i].status, charge |-> c]
  <2>2. payments[i] \in PaymentRow /\ i \in Nat
    BY DEF TypeOK, TablesTypeOK
  <2>3. c \in Nat
    BY DEF TypeOK, GatewayTypeOK
  <2>4. r \in Handler
    BY <2>2, <2>3 DEF Handler, Asking, PaymentRow
  <2>5. HandlersTypeOK'
    BY <1>10, <2>1, <2>4, HandlerStep DEF HandleWebhook
  <2>6. GatewayTypeOK'
    BY <1>10 DEF HandleWebhook, TypeOK, GatewayTypeOK
  <2> QED
    BY <1>10, <1>b, <1>t, <2>5, <2>6 DEF HandleWebhook
<1>11. ASSUME NEW h \in Handlers, NEW c \in notices, UnknownPayment(h, c)
       PROVE  TypeOK'
  <2>1. GatewayTypeOK' /\ HandlersTypeOK'
    BY <1>11 DEF UnknownPayment, TypeOK, GatewayTypeOK, HandlersTypeOK
  <2> QED
    BY <1>11, <1>b, <1>t, <2>1 DEF UnknownPayment
<1>12. ASSUME NEW h \in Handlers, GatewayAnswers(h) PROVE TypeOK'
  <2> DEFINE asked == handlers[h]
             status == MapStatus(charges[asked.charge].status)
             r == IF status # "null" /\ IsForward(asked.read, status)
                    THEN [pc |-> "update", notice |-> asked.notice,
                          payment |-> asked.payment, status |-> status]
                    ELSE Idle
  <2>1. asked \in Asking /\ asked.payment \in DOMAIN payments
    BY <1>12 DEF GatewayAnswers, TypeOK
  <2>2. status # "null" => status \in PaymentStatus
    BY DEF MapStatus, PaymentStatus
  <2>3. r \in Handler /\ r.pc # "getStatus"
    BY <2>1, <2>2 DEF Handler, Updating, Asking, Idle
  <2>4. r.pc = "update" => r.payment \in DOMAIN payments
    BY <2>1 DEF Idle
  <2>5. HandlersTypeOK'
    BY <1>12, <2>3, <2>4, HandlerStep DEF GatewayAnswers
  <2> QED
    BY <1>12, <1>b, <1>t, <1>g, <2>5 DEF GatewayAnswers
<1>13. ASSUME NEW h \in Handlers, UpdatePayment(h) PROVE TypeOK'
  <2> DEFINE i == handlers[h].payment
             status == handlers[h].status
             row == [payments[i] EXCEPT !.status = status]
             r == AfterWrite(payments[i].target, status, handlers[h].notice)
  <2>1. /\ i \in DOMAIN payments
        /\ status \in PaymentStatus
        /\ handlers[h].notice \in Nat
    BY <1>13 DEF UpdatePayment, TypeOK, Updating
  <2>2. payments \in Seq(PaymentRow) /\ payments[i] \in PaymentRow
    BY <2>1 DEF TypeOK, TablesTypeOK
  <2>3. row \in PaymentRow
    BY <2>1, <2>2 DEF PaymentRow
  <2>4. payments' = [payments EXCEPT ![i] = row]
    BY <1>13 DEF UpdatePayment
  <2>5. payments' \in Seq(PaymentRow) /\ DOMAIN payments' = DOMAIN payments
    BY <2>1, <2>2, <2>3, <2>4, ExceptFacts
  <2>6. r \in {Idle} \cup Settling
    BY <2>1, <2>2, AfterWriteType DEF PaymentRow
  <2>7. r \in Handler /\ r.pc \notin {"getStatus", "update"}
    BY <2>6 DEF Handler, Settling, Idle
  <2>8. HandlersTypeOK'
    BY <1>13, <2>5, <2>7, HandlerStep DEF UpdatePayment
  <2>9. TablesTypeOK'
    BY <1>13, <2>5 DEF UpdatePayment, TypeOK, TablesTypeOK
  <2> QED
    BY <1>13, <1>b, <1>g, <2>8, <2>9 DEF UpdatePayment
<1>14. ASSUME NEW h \in Handlers, MarkBudgetPaid(h) PROVE TypeOK'
  <2>1. HandlersTypeOK'
    BY <1>14, <1>i, HandlerStep DEF MarkBudgetPaid
  <2>2. handlers[h].budget \in BudgetIds
    BY <1>14 DEF MarkBudgetPaid, Settling
  <2>3. TablesTypeOK'
    BY <1>14, <2>2 DEF MarkBudgetPaid, TypeOK, TablesTypeOK, BudgetRow, BudgetStatus
  <2> QED
    BY <1>14, <1>b, <1>g, <2>1, <2>3 DEF MarkBudgetPaid
<1>15. ASSUME NEW h \in Handlers, GatewayFails(h) \/ Abort(h) PROVE TypeOK'
  <2>1. CutOff(h)
    BY <1>15 DEF GatewayFails, Abort
  <2>2. HandlersTypeOK'
    BY <2>1, <1>i, HandlerStep DEF CutOff
  <2>3. GatewayTypeOK'
    <3>1. CASE "notice" \in DOMAIN handlers[h]
      <4>1. handlers[h].notice \in Nat
        BY <3>1 DEF TypeOK, Handler, Checkout, Inserting, Asking, Updating, Settling, Idle
      <4>2. notices' = notices \cup ({handlers[h].notice} \ {0}) /\ charges' = charges
        BY <2>1, <3>1 DEF CutOff
      <4> QED
        BY <4>1, <4>2 DEF TypeOK, GatewayTypeOK
    <3>2. CASE "notice" \notin DOMAIN handlers[h]
      BY <2>1, <3>2 DEF CutOff, TypeOK, GatewayTypeOK
    <3> QED
      BY <3>1, <3>2
  <2> QED
    BY <2>1, <2>2, <2>3, <1>b, <1>t DEF CutOff
<1>16. ASSUME NEW i \in DOMAIN payments, PixExpires(i) PROVE TypeOK'
  <2> DEFINE row == [payments[i] EXCEPT !.pixValid = FALSE]
  <2>1. payments \in Seq(PaymentRow) /\ payments[i] \in PaymentRow
    BY DEF TypeOK, TablesTypeOK
  <2>2. row \in PaymentRow
    BY <2>1 DEF PaymentRow
  <2>3. payments' = [payments EXCEPT ![i] = row]
    BY <1>16 DEF PixExpires
  <2>4. payments' \in Seq(PaymentRow) /\ DOMAIN payments' = DOMAIN payments
    BY <2>1, <2>2, <2>3, ExceptFacts
  <2>5. HandlersTypeOK'
    BY <1>16, <1>a, <2>4 DEF PixExpires, HandlersTypeOK
  <2>6. TablesTypeOK'
    BY <1>16, <2>4 DEF PixExpires, TypeOK, TablesTypeOK
  <2> QED
    BY <1>16, <1>b, <1>g, <2>5, <2>6 DEF PixExpires
<1>17. ASSUME NEW c \in DOMAIN charges, Advances(c) PROVE TypeOK'
  <2>1. PICK s \in Lifecycle[charges[c].status] :
          charges' = [charges EXCEPT ![c].status = s, ![c].seen = @ \cup {s}]
    BY <1>17 DEF Advances, ProviderAdvances
  <2> DEFINE new == [charges[c] EXCEPT !.status = s, !.seen = @ \cup {s}]
  <2>2. charges \in Seq(Charge) /\ charges[c] \in Charge
    BY DEF TypeOK, GatewayTypeOK
  <2>3. s \in ChargeStatus
    BY <2>2, GatewayAssumption DEF Charge
  <2>4. new \in Charge
    BY <2>2, <2>3 DEF Charge
  <2>5. charges' = [charges EXCEPT ![c] = new]
    BY <2>1
  <2>6. charges' \in Seq(Charge)
    BY <2>2, <2>4, <2>5, ExceptFacts
  <2>7. notices' = notices \cup {c} /\ c \in Nat \ {0}
    BY <1>17, <2>2 DEF Advances, ProviderAdvances
  <2>8. GatewayTypeOK'
    BY <2>6, <2>7 DEF TypeOK, GatewayTypeOK
  <2>9. HandlersTypeOK'
    BY <1>17, <1>a DEF Advances, HandlersTypeOK
  <2> QED
    BY <1>17, <1>b, <1>t, <2>8, <2>9 DEF Advances
<1>18. ASSUME NEW c \in DOMAIN charges, Repeats(c) PROVE TypeOK'
  <2>0. c \in Nat \ {0}
    BY DEF TypeOK, GatewayTypeOK
  <2>1. GatewayTypeOK'
    BY <1>18, <2>0 DEF Repeats, ProviderRepeats, TypeOK, GatewayTypeOK
  <2>2. HandlersTypeOK'
    BY <1>18, <1>a DEF Repeats, HandlersTypeOK
  <2> QED
    BY <1>18, <1>b, <1>t, <2>1, <2>2 DEF Repeats
<1>19. CASE UNCHANGED vars
  BY <1>19 DEF vars, TypeOK, TablesTypeOK, GatewayTypeOK
<1>20. ASSUME NEW h \in Handlers, IsRefused(h) PROVE TypeOK'
  <2>1. HandlersTypeOK'
    BY <1>20, <1>i, HandlerStep DEF IsRefused
  <2> QED
    BY <1>20, <1>b, <1>t, <1>g, <2>1 DEF IsRefused
<1> QED
  BY <1>1, <1>2, <1>3, <1>4, <1>5, <1>6, <1>7, <1>8, <1>9, <1>10, <1>11, <1>12,
     <1>13, <1>14, <1>15, <1>16, <1>17, <1>18, <1>19, <1>20, InsertCases
     DEF Next, Starts, Continues, Environment

\* Every variable has its type in every reachable state: no handler's record,
\* table row or charge ever has a value the code's types rule out.
THEOREM TypeCorrect == Spec => []TypeOK
  BY InitType, StepType, PTL DEF Spec

-----------------------------------------------------------------------------
(* What a row or a request relies on is never taken away: charges are only *)
(* added to, and so is the history of each.                                *)

Grows ==
  /\ DOMAIN charges \subseteq DOMAIN charges'
  /\ \A c \in DOMAIN charges :
       /\ charges'[c].target = charges[c].target
       /\ charges[c].seen \subseteq charges'[c].seen

KeepsCharges ==
  /\ DOMAIN payments \subseteq DOMAIN payments'
  /\ \A i \in DOMAIN payments : payments'[i].charge = payments[i].charge

LEMMA PostChargeGrows ==
  ASSUME TypeOK, ChargesSeen, NEW target \in Targets, NEW s \in ChargeStatus,
         PostCharge(target, s)
  PROVE  /\ Grows
         /\ ChargesSeen'
         /\ Len(charges) + 1 \in DOMAIN charges'
         /\ Len(charges) + 1 # 0
         /\ charges'[Len(charges) + 1].target = target
         /\ charges'[Len(charges) + 1].seen = {s}
<1> DEFINE new == [target |-> target, status |-> s, seen |-> {s}]
<1>1. new \in Charge
  BY DEF Charge
<1>2. charges \in Seq(Charge)
  BY DEF TypeOK, GatewayTypeOK
<1>3. charges' = Append(charges, new)
  BY DEF PostCharge
<1>4. /\ DOMAIN charges' = DOMAIN charges \cup {Len(charges) + 1}
      /\ \A c \in DOMAIN charges : charges'[c] = charges[c]
      /\ charges'[Len(charges) + 1] = new
  BY <1>1, <1>2, <1>3, AppendFacts
<1>5. Len(charges) + 1 # 0
  BY <1>2
<1> QED
  BY <1>4, <1>5 DEF Grows, ChargesSeen

LEMMA AdvancesGrows ==
  ASSUME TypeOK, ChargesSeen, NEW c \in DOMAIN charges, ProviderAdvances(c)
  PROVE  Grows /\ ChargesSeen'
<1>1. PICK s \in Lifecycle[charges[c].status] :
        charges' = [charges EXCEPT ![c].status = s, ![c].seen = @ \cup {s}]
  BY DEF ProviderAdvances
<1>2. charges \in Seq(Charge) /\ charges[c] \in Charge
  BY DEF TypeOK, GatewayTypeOK
<1> DEFINE new == [charges[c] EXCEPT !.status = s, !.seen = @ \cup {s}]
<1>3. /\ new.target = charges[c].target
      /\ new.status = s
      /\ new.seen = charges[c].seen \cup {s}
  BY <1>2 DEF Charge
<1>4. charges' = [charges EXCEPT ![c] = new]
  BY <1>1
<1>5. s \in ChargeStatus
  BY <1>2, GatewayAssumption DEF Charge
<1>6. new \in Charge
  BY <1>2, <1>5 DEF Charge
<1>7. /\ DOMAIN charges' = DOMAIN charges
      /\ \A d \in DOMAIN charges : charges'[d] = IF d = c THEN new ELSE charges[d]
  BY <1>2, <1>4, <1>6, ExceptFacts
<1> QED
  BY <1>3, <1>7 DEF Grows, ChargesSeen

LEMMA RowBackedStable ==
  ASSUME Grows, NEW row, RowBacked(row)
  PROVE  RowBacked(row)'
  BY DEF Grows, RowBacked, Reported

LEMMA ApprovedStable ==
  ASSUME Grows, NEW b, Approved(b)
  PROVE  Approved(b)'
  BY DEF Grows, Approved

LEMMA RequestBackedStable ==
  ASSUME Grows, KeepsCharges, NEW r, RequestBacked(r)
  PROVE  RequestBacked(r)'
<1>1. r.pc = "insert" => RowBacked(r.row)'
  BY RowBackedStable DEF RequestBacked
<1>2. r.pc = "settle" => Approved(r.budget)'
  BY ApprovedStable DEF RequestBacked
<1>3. r.pc = "getStatus" =>
        /\ r.charge \in DOMAIN charges'
        /\ r.payment \in DOMAIN payments'
        /\ payments'[r.payment].charge = r.charge
  BY DEF RequestBacked, Grows, KeepsCharges
<1>4. r.pc = "update" =>
        /\ r.payment \in DOMAIN payments'
        /\ payments'[r.payment].charge \in DOMAIN charges'
        /\ r.status \in Reported(payments[r.payment].charge)'
  BY DEF RequestBacked, Grows, KeepsCharges, Reported
<1> QED
  BY <1>1, <1>2, <1>3, <1>4 DEF RequestBacked

\* A step that gives handler h a record whose claims hold keeps all of them.
LEMMA RequestStep ==
  ASSUME TypeOK, RequestsBacked, Grows, KeepsCharges, NEW h \in Handlers, NEW r,
         handlers' = [handlers EXCEPT ![h] = r], RequestBacked(r)'
  PROVE  RequestsBacked'
<1> SUFFICES ASSUME NEW g \in Handlers PROVE RequestBacked(handlers[g])'
  BY DEF RequestsBacked
<1>1. CASE g = h
  <2>1. handlers'[g] = r
    BY <1>1 DEF TypeOK
  <2> QED
    BY <2>1 DEF RequestBacked
<1>2. CASE g # h
  <2>1. handlers'[g] = handlers[g]
    BY <1>2 DEF TypeOK
  <2>2. RequestBacked(handlers[g])
    BY DEF RequestsBacked
  <2> DEFINE old == handlers[g]
  <2>3. \A q : RequestBacked(q) => RequestBacked(q)'
    BY RequestBackedStable
  <2> QED
    BY <2>1, <2>2, <2>3 DEF RequestBacked
<1> QED
  BY <1>1, <1>2

\* A step that only moves requests keeps the invariant if it keeps what the
\* requests rely on.
LEMMA RequestsOnly ==
  ASSUME IInv, TypeOK', UNCHANGED <<charges, payments, budgets>>, RequestsBacked'
  PROVE  IInv'
  BY DEF IInv, ChargesSeen, NoInventedStatus, RowBacked, Reported,
         SettledOnlyIfApproved, Approved

LEMMA Unchanged ==
  /\ UNCHANGED charges => Grows
  /\ UNCHANGED payments => KeepsCharges
  BY DEF Grows, KeepsCharges

\* A row with status PAID and a budget for its target has had that budget's
\* money approved.
LEMMA PaidIsApproved ==
  ASSUME NEW c \in DOMAIN charges, "PAID" \in Reported(c)
  PROVE  Approved(charges[c].target)
  BY MeansFacts DEF Reported, Approved

\* Rows and requests whose charges are kept stay backed.
LEMMA RowsStable ==
  ASSUME Grows, NoInventedStatus, UNCHANGED payments
  PROVE  NoInventedStatus'
  BY RowBackedStable DEF NoInventedStatus, RowBacked

LEMMA SettledStable ==
  ASSUME Grows, SettledOnlyIfApproved, UNCHANGED budgets
  PROVE  SettledOnlyIfApproved'
  BY ApprovedStable DEF SettledOnlyIfApproved, Approved

\* The invariant that carries NoInventedStatus and SettledOnlyIfApproved.
LEMMA InitIInv == Init => IInv
<1> SUFFICES ASSUME Init PROVE IInv
  OBVIOUS
<1>1. TypeOK
  BY InitType
<1>2. ChargesSeen /\ NoInventedStatus
  BY DEF Init, ChargesSeen, NoInventedStatus
<1>3. RequestsBacked
  BY DEF Init, RequestsBacked, RequestBacked, Idle
<1>4. SettledOnlyIfApproved
  BY DEF Init, SettledOnlyIfApproved
<1> QED
  BY <1>1, <1>2, <1>3, <1>4 DEF IInv

LEMMA StepIInv == IInv /\ [Next]_vars => IInv'
<1> SUFFICES ASSUME IInv, [Next]_vars PROVE IInv'
  OBVIOUS
<1> USE DEF tables
<1>t. TypeOK /\ TypeOK'
  BY StepType DEF IInv
<1>i. ChargesSeen /\ NoInventedStatus /\ RequestsBacked /\ SettledOnlyIfApproved
  BY DEF IInv
<1>q. \A r : r.pc \in {"idle", "checkPaid", "postCard"}
        => RequestBacked(r) /\ RequestBacked(r)'
  BY DEF RequestBacked
<1>1. ASSUME NEW h \in Handlers, NEW b \in BudgetIds, NEW method \in PaymentMethod,
             NEW kind \in PaymentKind, NEW u \in Users,
             CreateCheckout(h, b, method, kind, u)
      PROVE  IInv'
  <2> DEFINE r == [pc |-> "checkPaid", target |-> b, method |-> method, kind |-> kind]
  <2>1. RequestBacked(r)'
    BY <1>q
  <2>2. RequestsBacked'
    BY <1>1, <1>t, <1>i, <2>1, Unchanged, RequestStep DEF CreateCheckout
  <2> QED
    BY <1>1, <1>t, <2>2, RequestsOnly DEF CreateCheckout
<1>2. ASSUME NEW h \in Handlers, NEW s \in ScheduleIds, NEW method \in PaymentMethod,
             NEW u \in Users, CreateVisitCheckout(h, s, method, u)
      PROVE  IInv'
  <2> DEFINE r ==
        [pc |-> "checkPaid", target |-> s, method |-> method, kind |-> "ONE_TIME"]
  <2>1. RequestBacked(r)'
    BY <1>q
  <2>2. RequestsBacked'
    BY <1>2, <1>t, <1>i, <2>1, Unchanged, RequestStep DEF CreateVisitCheckout
  <2> QED
    BY <1>2, <1>t, <2>2, RequestsOnly DEF CreateVisitCheckout
<1>3. ASSUME NEW h \in Handlers, AssertNotAlreadyPaid(h) \/ FindReusablePix(h)
      PROVE  IInv'
  <2>1. PICK r : /\ handlers' = [handlers EXCEPT ![h] = r]
                 /\ r.pc \in {"idle", "findPix", "postPix", "postCard"}
                 /\ r.pc \in {"findPix", "postPix"} => r.method = "PIX"
    BY <1>3, <1>t, <1>i, HandlerCases
       DEF AssertNotAlreadyPaid, FindReusablePix, TypeOK, Checkout, Idle,
           RequestsBacked, RequestBacked
  <2>2. RequestBacked(r)'
    BY <2>1 DEF RequestBacked
  <2>3. UNCHANGED <<charges, payments, budgets>>
    BY <1>3 DEF AssertNotAlreadyPaid, FindReusablePix
  <2>4. RequestsBacked'
    BY <1>t, <1>i, <2>1, <2>2, <2>3, Unchanged, RequestStep
  <2> QED
    BY <1>t, <2>3, <2>4, RequestsOnly
<1>4. ASSUME NEW h \in Handlers, NEW s \in ChargeStatus, NEW status \in PaymentStatus,
             handlers[h].pc \in {"postPix", "postCard"},
             PostCharge(handlers[h].target, s),
             \/ s \in Means[status]
             \/ handlers[h].method = "PIX" /\ status = "PENDING",
             handlers' = [handlers EXCEPT ![h] =
               [pc |-> "insert", row |-> NewRow(handlers[h], status, Len(charges) + 1)]],
             UNCHANGED tables
      PROVE  IInv'
  <2>0. PICK row : row = NewRow(handlers[h], status, Len(charges) + 1)
    OBVIOUS
  <2> DEFINE r == [pc |-> "insert", row |-> row]
  <2>1. handlers[h] \in Checkout /\ handlers[h].target \in Targets
    BY <1>4, <1>t, HandlerCases DEF Checkout
  <2>2. /\ Grows
        /\ ChargesSeen'
        /\ Len(charges) + 1 \in DOMAIN charges'
        /\ Len(charges) + 1 # 0
        /\ charges'[Len(charges) + 1].target = handlers[h].target
        /\ charges'[Len(charges) + 1].seen = {s}
    BY <1>4, <1>t, <1>i, <2>1, PostChargeGrows
  <2>3. /\ row.charge = Len(charges) + 1
        /\ row.target = handlers[h].target
        /\ row.method = handlers[h].method
        /\ row.status = status
    BY <1>4, <2>0 DEF NewRow
  <2>4. RowBacked(row)'
    BY <1>4, <2>2, <2>3 DEF RowBacked, Reported
  <2>5. RequestBacked(r)'
    BY <2>4 DEF RequestBacked
  <2>6. handlers' = [handlers EXCEPT ![h] = r]
    BY <1>4, <2>0
  <2> HIDE DEF r
  <2>7. RequestsBacked'
    BY <1>4, <1>t, <1>i, <2>2, <2>5, <2>6, Unchanged, RequestStep
  <2>8. NoInventedStatus' /\ SettledOnlyIfApproved'
    BY <1>4, <1>i, <2>2, RowsStable, SettledStable
  <2> QED
    BY <1>t, <2>2, <2>7, <2>8 DEF IInv
<1>5. ASSUME NEW h \in Handlers, CreatePixCharge(h) \/ ChargeCard(h) PROVE IInv'
  <2>1. CASE CreatePixCharge(h)
    <3>1. PICK s \in PixOutcomes : PostCharge(handlers[h].target, s)
      BY <2>1 DEF CreatePixCharge
    <3>2. s \in ChargeStatus /\ "PENDING" \in PaymentStatus
      BY GatewayAssumption DEF PaymentStatus
    <3>3. handlers[h].method = "PIX"
      BY <2>1, <1>i DEF CreatePixCharge, RequestsBacked, RequestBacked
    <3>4. /\ handlers[h].pc \in {"postPix", "postCard"}
          /\ handlers' = [handlers EXCEPT ![h] =
               [pc |-> "insert", row |-> NewRow(handlers[h], "PENDING", Len(charges) + 1)]]
          /\ UNCHANGED tables
      BY <2>1 DEF CreatePixCharge
    <3> QED
      BY <3>1, <3>2, <3>3, <3>4, <1>4
  <2>2. CASE ChargeCard(h)
    <3>1. PICK s \in CardOutcomes :
            /\ PostCharge(handlers[h].target, s)
            /\ handlers' = [handlers EXCEPT ![h] =
                 [pc |-> "insert",
                  row |-> NewRow(handlers[h], CardStatus(s), Len(charges) + 1)]]
      BY <2>2 DEF ChargeCard
    <3>2. /\ s \in ChargeStatus
          /\ CardStatus(s) \in PaymentStatus
          /\ s \in Means[CardStatus(s)]
      BY GatewayAssumption, MappedMeans
    <3>3. handlers[h].pc \in {"postPix", "postCard"} /\ UNCHANGED tables
      BY <2>2 DEF ChargeCard
    <3> QED
      BY <3>1, <3>2, <3>3, <1>4
  <2> QED
    BY <1>5, <2>1, <2>2
<1>6. ASSUME NEW h \in Handlers, CardDeclined(h) PROVE IInv'
  <2>0. PICK row : row = NewRow(handlers[h], "FAILED", 0)
    OBVIOUS
  <2> DEFINE r == [pc |-> "insert", row |-> row]
  <2>1. RowBacked(row)'
    BY <2>0 DEF RowBacked, NewRow
  <2>2. RequestBacked(r)'
    BY <2>1 DEF RequestBacked
  <2>3. RequestsBacked'
    BY <1>6, <1>t, <1>i, <2>0, <2>2, Unchanged, RequestStep DEF CardDeclined
  <2> QED
    BY <1>6, <1>t, <2>3, RequestsOnly DEF CardDeclined
<1>7. ASSUME NEW h \in Handlers, Inserts(h) PROVE IInv'
  <2>0. PICK row, r : row = handlers[h].row /\ r = AfterWrite(row.target, row.status, 0)
    OBVIOUS
  <2>1. row \in PaymentRow /\ RowBacked(row)
    BY <1>7, <2>0, <1>t, <1>i, HandlerCases
       DEF Inserts, Inserting, RequestsBacked, RequestBacked
  <2>2. payments \in Seq(PaymentRow)
    BY <1>t DEF TypeOK, TablesTypeOK
  <2>3. payments' = Append(payments, row) /\ handlers' = [handlers EXCEPT ![h] = r]
    BY <1>7, <2>0 DEF Inserts
  <2>4. Grows /\ ChargesSeen'
    BY <1>7, <1>i, Unchanged DEF Inserts, ChargesSeen
  <2>5. /\ DOMAIN payments' = DOMAIN payments \cup {Len(payments) + 1}
        /\ \A i \in DOMAIN payments : payments'[i] = payments[i]
        /\ payments'[Len(payments) + 1] = row
    BY <2>1, <2>2, <2>3, AppendFacts
  <2>6. KeepsCharges
    BY <2>5 DEF KeepsCharges
  <2>7. NoInventedStatus'
    BY <1>7, <1>i, <2>1, <2>5
       DEF Inserts, NoInventedStatus, RowBacked, Reported
  <2>8. SettledOnlyIfApproved'
    BY <1>7, <1>i, <2>4, SettledStable DEF Inserts
  <2>9. RequestBacked(r)
    <3>1. CASE row.status = "PAID" /\ row.target \in BudgetIds
      <4>1. /\ row.charge \in DOMAIN charges
            /\ row.target = charges[row.charge].target
            /\ "PAID" \in Reported(row.charge)
        BY <2>1, <3>1, SchemaAssumption DEF RowBacked
      <4>2. Approved(row.target)
        BY <4>1, PaidIsApproved
      <4> QED
        BY <2>0, <3>1, <4>2 DEF AfterWrite, RequestBacked
    <3>2. CASE ~(row.status = "PAID" /\ row.target \in BudgetIds)
      BY <2>0, <3>2 DEF AfterWrite, RequestBacked, Idle
    <3> QED
      BY <3>1, <3>2
  <2>10. RequestBacked(r)'
    BY <2>4, <2>6, <2>9, RequestBackedStable
  <2>11. RequestsBacked'
    BY <1>t, <1>i, <2>3, <2>4, <2>6, <2>10, RequestStep
  <2> QED
    BY <1>t, <2>4, <2>7, <2>8, <2>11 DEF IInv
<1>8. ASSUME NEW h \in Handlers, NEW i \in DOMAIN payments, NEW u \in Users,
             FindById(h, i, u)
      PROVE  IInv'
  <2> DEFINE r == [pc |-> "getStatus", notice |-> 0, payment |-> i,
                   read |-> payments[i].status, charge |-> payments[i].charge]
  <2>1. RowBacked(payments[i]) /\ payments[i].status # "FAILED"
    BY <1>8, <1>i DEF FindById, NoInventedStatus, NonTerminal
  <2>2. RequestBacked(r)
    BY <2>1 DEF RequestBacked, RowBacked
  <2>3. Grows /\ KeepsCharges /\ handlers' = [handlers EXCEPT ![h] = r]
    BY <1>8, Unchanged DEF FindById
  <2> HIDE DEF r
  <2>4. RequestsBacked'
    BY <1>t, <1>i, <2>2, <2>3, RequestBackedStable, RequestStep
  <2> QED
    BY <1>8, <1>t, <2>4, RequestsOnly DEF FindById
<1>9. ASSUME NEW h \in Handlers, NEW c \in notices, HandleWebhook(h, c)
      PROVE  IInv'
  <2>1. PICK i \in DOMAIN payments :
          /\ payments[i].charge = c
          /\ handlers' = [handlers EXCEPT ![h] =
               [pc |-> "getStatus", notice |-> c, payment |-> i,
                read |-> payments[i].status, charge |-> c]]
    BY <1>9 DEF HandleWebhook
  <2> DEFINE r == [pc |-> "getStatus", notice |-> c, payment |-> i,
                   read |-> payments[i].status, charge |-> c]
  <2>2. c # 0
    BY <1>t DEF TypeOK, GatewayTypeOK
  <2>3. c \in DOMAIN charges
    BY <1>i, <2>1, <2>2 DEF NoInventedStatus, RowBacked
  <2>4. RequestBacked(r)
    BY <2>1, <2>3 DEF RequestBacked
  <2>5. Grows /\ KeepsCharges /\ handlers' = [handlers EXCEPT ![h] = r]
    BY <1>9, <2>1, Unchanged DEF HandleWebhook
  <2> HIDE DEF r
  <2>6. RequestsBacked'
    BY <1>t, <1>i, <2>4, <2>5, RequestBackedStable, RequestStep
  <2> QED
    BY <1>9, <1>t, <2>6, RequestsOnly DEF HandleWebhook
<1>10. ASSUME NEW h \in Handlers, GatewayAnswers(h) PROVE IInv'
  <2> DEFINE asked == handlers[h]
             status == MapStatus(charges[asked.charge].status)
             r == IF status # "null" /\ IsForward(asked.read, status)
                    THEN [pc |-> "update", notice |-> asked.notice,
                          payment |-> asked.payment, status |-> status]
                    ELSE Idle
  <2>1. /\ asked.charge \in DOMAIN charges
        /\ asked.payment \in DOMAIN payments
        /\ payments[asked.payment].charge = asked.charge
    BY <1>10, <1>i DEF GatewayAnswers, RequestsBacked, RequestBacked
  <2>2. charges[asked.charge].status \in charges[asked.charge].seen
    BY <1>i, <2>1 DEF ChargesSeen
  <2>3. status # "null" => status \in Reported(asked.charge)
    <3>1. charges[asked.charge] \in Charge
      BY <1>t, <2>1 DEF TypeOK, GatewayTypeOK
    <3>2. charges[asked.charge].status \in ChargeStatus
      BY <3>1 DEF Charge
    <3> QED
      BY <2>2, <3>2, MappedMeans DEF Reported
  <2>4. RequestBacked(r)
    BY <2>1, <2>3 DEF RequestBacked, Idle
  <2>5. Grows /\ KeepsCharges /\ handlers' = [handlers EXCEPT ![h] = r]
    BY <1>10, Unchanged DEF GatewayAnswers
  <2> HIDE DEF r
  <2>6. RequestsBacked'
    BY <1>t, <1>i, <2>4, <2>5, RequestBackedStable, RequestStep
  <2> QED
    BY <1>10, <1>t, <2>6, RequestsOnly DEF GatewayAnswers
<1>11. ASSUME NEW h \in Handlers, UpdatePayment(h) PROVE IInv'
  <2> DEFINE i == handlers[h].payment
             status == handlers[h].status
             row == [payments[i] EXCEPT !.status = status]
             r == AfterWrite(payments[i].target, status, handlers[h].notice)
  <2>1. /\ i \in DOMAIN payments
        /\ status \in PaymentStatus
        /\ payments[i].charge \in DOMAIN charges
        /\ status \in Reported(payments[i].charge)
    BY <1>11, <1>t, <1>i, HandlerCases
       DEF UpdatePayment, Updating, RequestsBacked, RequestBacked
  <2>2. payments \in Seq(PaymentRow) /\ payments[i] \in PaymentRow
    BY <1>t, <2>1 DEF TypeOK, TablesTypeOK
  <2>3. payments' = [payments EXCEPT ![i] = row] /\ handlers' = [handlers EXCEPT ![h] = r]
    BY <1>11 DEF UpdatePayment
  <2>4. /\ row \in PaymentRow
        /\ row.charge = payments[i].charge
        /\ row.target = payments[i].target
        /\ row.status = status
    BY <2>1, <2>2 DEF PaymentRow
  <2>5. /\ DOMAIN payments' = DOMAIN payments
        /\ \A j \in DOMAIN payments : payments'[j] = IF j = i THEN row ELSE payments[j]
    BY <2>1, <2>2, <2>3, <2>4, ExceptFacts
  <2> HIDE DEF row
  <2>6. Grows /\ ChargesSeen' /\ KeepsCharges
    BY <1>11, <1>i, <2>4, <2>5, Unchanged DEF UpdatePayment, ChargesSeen, KeepsCharges
  <2>7. payments[i].charge # 0
    BY <1>t, <2>1 DEF TypeOK, GatewayTypeOK
  <2>8. RowBacked(payments[i])
    BY <1>i, <2>1 DEF NoInventedStatus
  <2>9. RowBacked(row)
    BY <2>1, <2>4, <2>7, <2>8 DEF RowBacked
  <2>10. NoInventedStatus'
    BY <1>11, <1>i, <2>5, <2>9
       DEF UpdatePayment, NoInventedStatus, RowBacked, Reported
  <2>11. SettledOnlyIfApproved'
    BY <1>11, <1>i, <2>6, SettledStable DEF UpdatePayment
  <2>12. RequestBacked(r)
    <3>1. CASE status = "PAID" /\ payments[i].target \in BudgetIds
      <4>1. payments[i].target = charges[payments[i].charge].target
        BY <2>7, <2>8, <3>1, SchemaAssumption DEF RowBacked
      <4>2. Approved(payments[i].target)
        BY <2>1, <3>1, <4>1, PaidIsApproved
      <4> QED
        BY <3>1, <4>2 DEF AfterWrite, RequestBacked
    <3>2. CASE ~(status = "PAID" /\ payments[i].target \in BudgetIds)
      BY <3>2 DEF AfterWrite, RequestBacked, Idle
    <3> QED
      BY <3>1, <3>2
  <2> HIDE DEF r
  <2>13. RequestsBacked'
    BY <1>t, <1>i, <2>3, <2>6, <2>12, RequestBackedStable, RequestStep
  <2> QED
    BY <1>t, <2>6, <2>10, <2>11, <2>13 DEF IInv
<1>12. ASSUME NEW h \in Handlers, MarkBudgetPaid(h) PROVE IInv'
  <2>1. Grows /\ KeepsCharges /\ ChargesSeen'
    BY <1>12, <1>i, Unchanged DEF MarkBudgetPaid, ChargesSeen
  <2>2. handlers[h].budget \in BudgetIds /\ Approved(handlers[h].budget)
    BY <1>12, <1>t, <1>i, HandlerCases
       DEF MarkBudgetPaid, Settling, RequestsBacked, RequestBacked
  <2>3. NoInventedStatus'
    BY <1>12, <1>i, <2>1, RowsStable DEF MarkBudgetPaid
  <2>4. SettledOnlyIfApproved'
    <3> SUFFICES ASSUME NEW b \in BudgetIds, budgets'[b].status = "PAID"
                 PROVE  Approved(b)'
      BY DEF SettledOnlyIfApproved
    <3>1. Approved(b)
      BY <1>12, <1>t, <1>i, <2>2
         DEF MarkBudgetPaid, SettledOnlyIfApproved, TypeOK, TablesTypeOK, BudgetRow
    <3> QED
      BY <2>1, <3>1, ApprovedStable
  <2>5. RequestBacked(Idle)'
    BY DEF RequestBacked, Idle
  <2>6. RequestsBacked'
    BY <1>12, <1>t, <1>i, <2>1, <2>5, RequestStep DEF MarkBudgetPaid
  <2> QED
    BY <1>t, <2>1, <2>3, <2>4, <2>6 DEF IInv
<1>13. ASSUME NEW h \in Handlers, GatewayFails(h) \/ Abort(h) PROVE IInv'
  <2>1. CutOff(h)
    BY <1>13 DEF GatewayFails, Abort
  <2>2. RequestBacked(Idle)'
    BY DEF RequestBacked, Idle
  <2>3. RequestsBacked'
    BY <1>t, <1>i, <2>1, <2>2, Unchanged, RequestStep DEF CutOff
  <2> QED
    BY <1>t, <2>1, <2>3, RequestsOnly DEF CutOff
<1>14. ASSUME NEW i \in DOMAIN payments, PixExpires(i) PROVE IInv'
  <2> DEFINE row == [payments[i] EXCEPT !.pixValid = FALSE]
  <2>1. payments \in Seq(PaymentRow) /\ payments[i] \in PaymentRow
    BY <1>t DEF TypeOK, TablesTypeOK
  <2>2. /\ row \in PaymentRow
        /\ row.charge = payments[i].charge
        /\ row.target = payments[i].target
        /\ row.method = payments[i].method
        /\ row.status = payments[i].status
    BY <2>1 DEF PaymentRow
  <2>3. payments' = [payments EXCEPT ![i] = row]
    BY <1>14 DEF PixExpires
  <2>4. /\ DOMAIN payments' = DOMAIN payments
        /\ \A j \in DOMAIN payments : payments'[j] = IF j = i THEN row ELSE payments[j]
    BY <2>1, <2>2, <2>3, ExceptFacts
  <2> HIDE DEF row
  <2>5. Grows /\ ChargesSeen' /\ KeepsCharges
    BY <1>14, <1>i, <2>2, <2>4, Unchanged DEF PixExpires, ChargesSeen, KeepsCharges
  <2>6. RowBacked(row)
    BY <1>i, <2>2 DEF NoInventedStatus, RowBacked
  <2>7. NoInventedStatus'
    BY <1>14, <1>i, <2>4, <2>6 DEF PixExpires, NoInventedStatus, RowBacked, Reported
  <2>8. SettledOnlyIfApproved'
    BY <1>14, <1>i, <2>5, SettledStable DEF PixExpires
  <2>9. RequestsBacked'
    BY <1>14, <1>i, <2>5, RequestBackedStable DEF PixExpires, RequestsBacked, RequestBacked
  <2> QED
    BY <1>t, <2>5, <2>7, <2>8, <2>9 DEF IInv
<1>15. ASSUME NEW c \in DOMAIN charges, Advances(c) PROVE IInv'
  <2>1. Grows /\ ChargesSeen' /\ KeepsCharges
    BY <1>15, <1>t, <1>i, AdvancesGrows, Unchanged DEF Advances
  <2>2. NoInventedStatus' /\ SettledOnlyIfApproved'
    BY <1>15, <1>i, <2>1, RowsStable, SettledStable DEF Advances
  <2>3. RequestsBacked'
    BY <1>15, <1>i, <2>1, RequestBackedStable DEF Advances, RequestsBacked, RequestBacked
  <2> QED
    BY <1>t, <2>1, <2>2, <2>3 DEF IInv
<1>16. CASE \/ \E c \in DOMAIN charges : Repeats(c)
            \/ \E h \in Handlers, c \in notices : UnknownPayment(h, c)
            \/ UNCHANGED vars
  <2>1. UNCHANGED <<charges, payments, budgets, handlers>>
    BY <1>16 DEF Repeats, ProviderRepeats, UnknownPayment, vars
  <2>2. RequestsBacked'
    BY <1>i, <2>1 DEF RequestsBacked, RequestBacked, RowBacked, Reported, Approved
  <2> QED
    BY <1>t, <2>1, <2>2, RequestsOnly
<1>17. ASSUME NEW h \in Handlers, IsRefused(h) PROVE IInv'
  <2>1. RequestBacked(Idle)'
    BY DEF RequestBacked, Idle
  <2>2. RequestsBacked'
    BY <1>17, <1>t, <1>i, <2>1, Unchanged, RequestStep DEF IsRefused
  <2> QED
    BY <1>17, <1>t, <2>2, RequestsOnly DEF IsRefused
<1> QED
  BY <1>1, <1>2, <1>3, <1>5, <1>6, <1>7, <1>8, <1>9, <1>10, <1>11, <1>12, <1>13,
     <1>14, <1>15, <1>16, <1>17, InsertCases
     DEF Next, Starts, Continues, Environment

\* No payment ever shows a status its charge did not have, with any number of
\* webhooks, polls and checkouts interleaved and cut off anywhere.
THEOREM NothingInvented == Spec => []NoInventedStatus
<1>1. IInv => NoInventedStatus
  BY DEF IInv
<1> QED
  BY <1>1, InitIInv, StepIInv, PTL DEF Spec

\* No budget is PAID without an approved charge of its own, whichever request
\* settles it and whatever it read its payment as.
THEOREM SettledOnlyIfApprovedCorrect == Spec => []SettledOnlyIfApproved
<1>1. IInv => SettledOnlyIfApproved
  BY DEF IInv
<1> QED
  BY <1>1, InitIInv, StepIInv, PTL DEF Spec

-----------------------------------------------------------------------------
(* One payment per charge.                                                 *)

Distinct == OneRowPerCharge /\ FreshInserts

\* Charge c belongs to no payment and to no request about to insert one.
Unclaimed(c) ==
  /\ \A i \in DOMAIN payments : payments[i].charge # c
  /\ \A g \in Handlers : handlers[g].pc = "insert" => handlers[g].row.charge # c

\* A step that leaves the payments their charges and takes no request to
\* payment.create keeps charges apart.
LEMMA DistinctStable ==
  ASSUME Distinct, TypeOK, NEW h \in Handlers, NEW r, r.pc # "insert",
         handlers' = [handlers EXCEPT ![h] = r],
         KeepsCharges, DOMAIN payments' = DOMAIN payments
  PROVE  Distinct'
<1>1. \A g \in Handlers : handlers'[g].pc = "insert" =>
        handlers'[g] = handlers[g] /\ handlers[g].pc = "insert"
  <2> SUFFICES ASSUME NEW g \in Handlers, handlers'[g].pc = "insert"
               PROVE  handlers'[g] = handlers[g] /\ handlers[g].pc = "insert"
    OBVIOUS
  <2> QED
    BY DEF TypeOK
<1>2. \A i \in DOMAIN payments : payments'[i].charge = payments[i].charge
  BY DEF KeepsCharges
<1>3. OneRowPerCharge'
  BY <1>2 DEF Distinct, OneRowPerCharge
<1>4. FreshInserts'
  BY <1>1, <1>2 DEF Distinct, FreshInserts
<1> QED
  BY <1>3, <1>4 DEF Distinct

\* A request may go to payment.create with no charge or an unclaimed one.
LEMMA DistinctInsert ==
  ASSUME Distinct, TypeOK, NEW h \in Handlers, NEW row,
         row.charge = 0 \/ Unclaimed(row.charge),
         handlers' = [handlers EXCEPT ![h] = [pc |-> "insert", row |-> row]],
         UNCHANGED payments
  PROVE  Distinct'
<1>1. /\ handlers'[h] = [pc |-> "insert", row |-> row]
      /\ \A g \in Handlers \ {h} : handlers'[g] = handlers[g]
  BY DEF TypeOK
<1>2. OneRowPerCharge'
  BY DEF Distinct, OneRowPerCharge
<1>3. FreshInserts'
  <2> SUFFICES ASSUME NEW f \in Handlers, handlers'[f].pc = "insert",
                      handlers'[f].row.charge # 0
               PROVE  /\ \A i \in DOMAIN payments :
                           payments[i].charge # handlers'[f].row.charge
                      /\ \A g \in Handlers \ {f} : handlers'[g].pc = "insert" =>
                           handlers'[g].row.charge # handlers'[f].row.charge
    BY DEF FreshInserts
  <2>1. CASE f = h
    BY <1>1, <2>1 DEF Unclaimed
  <2>2. CASE f # h
    BY <1>1, <2>2 DEF Distinct, FreshInserts, Unclaimed
  <2> QED
    BY <2>1, <2>2
<1> QED
  BY <1>2, <1>3 DEF Distinct

\* The next charge's number is nobody's yet: every number in use is that of
\* a charge the provider holds.
LEMMA NextUnclaimed == IInv => Unclaimed(Len(charges) + 1)
<1> SUFFICES ASSUME IInv PROVE Unclaimed(Len(charges) + 1)
  OBVIOUS
<1>1. charges \in Seq(Charge)
  BY DEF IInv, TypeOK, GatewayTypeOK
<1>2. Len(charges) + 1 # 0 /\ Len(charges) + 1 \notin DOMAIN charges
  BY <1>1
<1> DEFINE c == Len(charges) + 1
<1> HIDE DEF c
<1>3. c # 0 /\ c \notin DOMAIN charges
  BY <1>2 DEF c
<1>4. Unclaimed(c)
  BY <1>3 DEF IInv, NoInventedStatus, RequestsBacked, RequestBacked, RowBacked, Unclaimed
<1> QED
  BY <1>4 DEF c

\* payment.create takes the charge over from its request.
LEMMA DistinctAppend ==
  ASSUME Distinct, TypeOK, NEW h \in Handlers, Inserts(h)
  PROVE  Distinct'
<1>1. PICK row : row = handlers[h].row
  OBVIOUS
<1>2. PICK n : n = Len(payments) + 1
  OBVIOUS
<1>3. row \in PaymentRow /\ payments \in Seq(PaymentRow)
  BY <1>1, HandlerCases DEF Inserts, Inserting, TypeOK, TablesTypeOK
<1>4. payments' = Append(payments, row)
  BY <1>1 DEF Inserts
<1>5. /\ DOMAIN payments' = DOMAIN payments \cup {n}
      /\ n \notin DOMAIN payments
      /\ \A i \in DOMAIN payments : payments'[i] = payments[i]
      /\ payments'[n] = row
  BY <1>2, <1>3, <1>4, AppendFacts
<1>6. /\ handlers'[h].pc # "insert"
      /\ \A g \in Handlers \ {h} : handlers'[g] = handlers[g]
  BY DEF Inserts, TypeOK, AfterWrite, Idle
<1>7. row.charge # 0 =>
        /\ \A i \in DOMAIN payments : payments[i].charge # row.charge
        /\ \A g \in Handlers \ {h} :
             handlers[g].pc = "insert" => handlers[g].row.charge # row.charge
  BY <1>1 DEF Distinct, FreshInserts, Inserts
<1>8. OneRowPerCharge'
  BY <1>5, <1>7 DEF Distinct, OneRowPerCharge
<1>9. FreshInserts'
  <2> SUFFICES ASSUME NEW f \in Handlers, handlers'[f].pc = "insert",
                      handlers'[f].row.charge # 0
               PROVE  /\ \A i \in DOMAIN payments' :
                           payments'[i].charge # handlers'[f].row.charge
                      /\ \A g \in Handlers \ {f} : handlers'[g].pc = "insert" =>
                           handlers'[g].row.charge # handlers'[f].row.charge
    BY DEF FreshInserts
  <2>1. f # h /\ handlers'[f] = handlers[f]
    BY <1>6
  <2>2. /\ \A i \in DOMAIN payments : payments[i].charge # handlers[f].row.charge
        /\ \A g \in Handlers \ {f} : handlers[g].pc = "insert" =>
             handlers[g].row.charge # handlers[f].row.charge
        /\ row.charge # handlers[f].row.charge
    BY <1>1, <2>1 DEF Distinct, FreshInserts, Inserts
  <2> QED
    BY <1>5, <1>6, <2>1, <2>2
<1> QED
  BY <1>8, <1>9 DEF Distinct

LEMMA StepDistinct == IInv /\ Distinct /\ [Next]_vars => Distinct'
<1> SUFFICES ASSUME IInv, Distinct, [Next]_vars PROVE Distinct'
  OBVIOUS
<1> USE DEF tables
<1>t. TypeOK
  BY DEF IInv
<1>u. UNCHANGED payments => KeepsCharges /\ DOMAIN payments' = DOMAIN payments
  BY Unchanged
<1>h. UNCHANGED handlers /\ KeepsCharges /\ DOMAIN payments' = DOMAIN payments
        => Distinct'
  BY DEF Distinct, OneRowPerCharge, FreshInserts, KeepsCharges
<1>1. ASSUME NEW h \in Handlers,
             \/ \E b \in BudgetIds, method \in PaymentMethod,
                   kind \in PaymentKind, u \in Users :
                  CreateCheckout(h, b, method, kind, u)
             \/ \E s \in ScheduleIds, method \in PaymentMethod, u \in Users :
                  CreateVisitCheckout(h, s, method, u)
             \/ AssertNotAlreadyPaid(h)
             \/ FindReusablePix(h)
             \/ \E i \in DOMAIN payments, u \in Users : FindById(h, i, u)
             \/ \E c \in notices : HandleWebhook(h, c)
             \/ GatewayAnswers(h)
             \/ MarkBudgetPaid(h)
             \/ GatewayFails(h)
             \/ Abort(h)
             \/ IsRefused(h)
      PROVE  Distinct'
  <2>1. UNCHANGED payments
    BY <1>1 DEF CreateCheckout, CreateVisitCheckout, AssertNotAlreadyPaid,
                FindReusablePix, FindById, HandleWebhook, GatewayAnswers,
                MarkBudgetPaid, GatewayFails, Abort, CutOff, IsRefused
  <2>2. \E r : r.pc # "insert" /\ handlers' = [handlers EXCEPT ![h] = r]
    <3>1. CASE \/ \E b \in BudgetIds, method \in PaymentMethod,
                     kind \in PaymentKind, u \in Users :
                    CreateCheckout(h, b, method, kind, u)
               \/ \E s \in ScheduleIds, method \in PaymentMethod, u \in Users :
                    CreateVisitCheckout(h, s, method, u)
      BY <3>1 DEF CreateCheckout, CreateVisitCheckout
    <3>2. CASE AssertNotAlreadyPaid(h) \/ FindReusablePix(h)
      BY <3>2, <1>t, HandlerCases
         DEF AssertNotAlreadyPaid, FindReusablePix, TypeOK, Checkout, Idle
    <3>3. CASE \/ \E i \in DOMAIN payments, u \in Users : FindById(h, i, u)
               \/ \E c \in notices : HandleWebhook(h, c)
      BY <3>3 DEF FindById, HandleWebhook
    <3>4. CASE GatewayAnswers(h)
      BY <3>4 DEF GatewayAnswers, Idle
    <3>5. CASE MarkBudgetPaid(h) \/ GatewayFails(h) \/ Abort(h) \/ IsRefused(h)
      BY <3>5 DEF MarkBudgetPaid, GatewayFails, Abort, CutOff, IsRefused, Idle
    <3> QED
      BY <1>1, <3>1, <3>2, <3>3, <3>4, <3>5
  <2> QED
    BY <1>t, <1>u, <2>1, <2>2, DistinctStable
<1>2. ASSUME NEW h \in Handlers, CreatePixCharge(h) \/ ChargeCard(h) PROVE Distinct'
  <2>1. PICK status : handlers' = [handlers EXCEPT ![h] =
          [pc |-> "insert", row |-> NewRow(handlers[h], status, Len(charges) + 1)]]
    BY <1>2 DEF CreatePixCharge, ChargeCard
  <2>2. PICK row : row = NewRow(handlers[h], status, Len(charges) + 1)
    OBVIOUS
  <2>3. Unclaimed(row.charge)
    BY <2>2, NextUnclaimed DEF NewRow
  <2>4. UNCHANGED payments
    BY <1>2 DEF CreatePixCharge, ChargeCard
  <2> QED
    BY <1>t, <2>1, <2>2, <2>3, <2>4, DistinctInsert
<1>3. ASSUME NEW h \in Handlers, CardDeclined(h) PROVE Distinct'
  <2>1. PICK row : row = NewRow(handlers[h], "FAILED", 0)
    OBVIOUS
  <2>2. row.charge = 0
    BY <2>1 DEF NewRow
  <2> QED
    BY <1>3, <1>t, <2>1, <2>2, DistinctInsert DEF CardDeclined
<1>4. ASSUME NEW h \in Handlers, Inserts(h) PROVE Distinct'
  BY <1>4, <1>t, DistinctAppend
<1>5. ASSUME NEW h \in Handlers, UpdatePayment(h) PROVE Distinct'
  <2>1. PICK i : i = handlers[h].payment
    OBVIOUS
  <2>2. i \in DOMAIN payments /\ payments \in Seq(PaymentRow)
    BY <1>5, <1>t, <2>1 DEF UpdatePayment, TypeOK, TablesTypeOK
  <2>3. payments' = [payments EXCEPT ![i].status = handlers[h].status]
    BY <1>5, <2>1 DEF UpdatePayment
  <2>4. KeepsCharges /\ DOMAIN payments' = DOMAIN payments
    BY <2>2, <2>3 DEF KeepsCharges, PaymentRow
  <2>5. PICK r : r = AfterWrite(payments[i].target, handlers[h].status,
                                handlers[h].notice)
    OBVIOUS
  <2>6. handlers' = [handlers EXCEPT ![h] = r] /\ r.pc # "insert"
    BY <1>5, <2>1, <2>5 DEF UpdatePayment, AfterWrite, Idle
  <2> QED
    BY <1>t, <2>4, <2>6, DistinctStable
<1>6. ASSUME NEW i \in DOMAIN payments, PixExpires(i) PROVE Distinct'
  <2>1. payments \in Seq(PaymentRow)
    BY <1>t DEF TypeOK, TablesTypeOK
  <2>2. KeepsCharges /\ DOMAIN payments' = DOMAIN payments
    BY <1>6, <2>1 DEF PixExpires, KeepsCharges, PaymentRow
  <2> QED
    BY <1>6, <1>h, <2>2 DEF PixExpires
<1>7. CASE \/ \E c \in DOMAIN charges : Advances(c) \/ Repeats(c)
           \/ \E h \in Handlers, c \in notices : UnknownPayment(h, c)
           \/ UNCHANGED vars
  <2>1. UNCHANGED <<payments, handlers>>
    BY <1>7 DEF Advances, Repeats, UnknownPayment, vars
  <2> QED
    BY <1>h, <1>u, <2>1
<1> QED
  BY <1>1, <1>2, <1>3, <1>4, <1>5, <1>6, <1>7, InsertCases
     DEF Next, Starts, Continues, Environment

\* No two payments carry the same charge, so handleWebhook's findFirst by
\* providerPaymentId, a column without a unique constraint, has one answer.
THEOREM OneRowPerChargeCorrect == Spec => []OneRowPerCharge
<1>1. Init => Distinct
  BY DEF Init, Distinct, OneRowPerCharge, FreshInserts, Idle
<1>2. Distinct => OneRowPerCharge
  BY DEF Distinct
<1> QED
  BY <1>1, <1>2, InitIInv, StepIInv, StepDistinct, PTL DEF Spec

-----------------------------------------------------------------------------
(* A PAID payment settles its budget.                                      *)

Awaited(b) ==
  \/ budgets[b].status = "PAID"
  \/ \E h \in Handlers : handlers[h].pc = "settle" /\ handlers[h].budget = b

\* The requests about to settle a budget stay there, and none is undone.
KeepsSettling ==
  /\ \A g \in Handlers : handlers[g].pc = "settle" => handlers'[g] = handlers[g]
  /\ UNCHANGED budgets

LEMMA MovesKeepSettling ==
  ASSUME TypeOK, NEW h \in Handlers, NEW r, handlers[h].pc # "settle",
         handlers' = [handlers EXCEPT ![h] = r], UNCHANGED budgets
  PROVE  KeepsSettling
  BY DEF KeepsSettling, TypeOK

LEMMA AwaitedStable ==
  ASSUME KeepsSettling, NEW b \in BudgetIds, Awaited(b)
  PROVE  Awaited(b)'
  BY DEF KeepsSettling, Awaited

\* A step that makes no payment PAID and keeps the settling requests.
LEMMA PaidRowsStable ==
  ASSUME PaidRowsSettled, KeepsSettling, DOMAIN payments' = DOMAIN payments,
         \A i \in DOMAIN payments :
           /\ payments'[i].target = payments[i].target
           /\ payments'[i].status = "PAID" => payments[i].status = "PAID"
  PROVE  PaidRowsSettled'
<1> SUFFICES ASSUME NEW i \in DOMAIN payments', payments'[i].status = "PAID",
                    payments'[i].target \in BudgetIds
             PROVE  Awaited(payments[i].target)'
  BY DEF PaidRowsSettled, Awaited
<1>1. Awaited(payments[i].target)
  BY DEF PaidRowsSettled, Awaited
<1> QED
  BY <1>1, AwaitedStable DEF KeepsSettling, Awaited

\* A request that wrote row n, PAID for a budget, waits to settle it.
LEMMA WriteIsAwaited ==
  ASSUME PaidRowsSettled, TypeOK, NEW h \in Handlers, handlers[h].pc # "settle",
         NEW n \in DOMAIN payments', NEW notice,
         handlers' = [handlers EXCEPT ![h] =
           AfterWrite(payments'[n].target, payments'[n].status, notice)],
         UNCHANGED budgets,
         \A i \in DOMAIN payments' \ {n} :
           i \in DOMAIN payments /\ payments'[i] = payments[i]
  PROVE  PaidRowsSettled'
<1> SUFFICES ASSUME NEW i \in DOMAIN payments', payments'[i].status = "PAID",
                    payments'[i].target \in BudgetIds
             PROVE  \/ budgets'[payments'[i].target].status = "PAID"
                    \/ \E g \in Handlers :
                         /\ handlers'[g].pc = "settle"
                         /\ handlers'[g].budget = payments'[i].target
  BY DEF PaidRowsSettled
<1>1. CASE i = n
  <2>1. handlers'[h] =
          [pc |-> "settle", notice |-> notice, budget |-> payments'[i].target]
    BY <1>1 DEF AfterWrite, TypeOK
  <2> QED
    BY <2>1
<1>2. CASE i # n
  <2>1. i \in DOMAIN payments /\ payments'[i] = payments[i]
    BY <1>2
  <2>2. KeepsSettling
    BY MovesKeepSettling
  <2> QED
    BY <2>1, <2>2 DEF PaidRowsSettled, KeepsSettling
<1> QED
  BY <1>1, <1>2

LEMMA StepPaidRows ==
  ASSUME "settle" \notin CrashPoints
  PROVE  IInv /\ PaidRowsSettled /\ [Next]_vars => PaidRowsSettled'
<1> SUFFICES ASSUME IInv, PaidRowsSettled, [Next]_vars PROVE PaidRowsSettled'
  OBVIOUS
<1> USE DEF tables
<1>t. TypeOK /\ payments \in Seq(PaymentRow)
  BY DEF IInv, TypeOK, TablesTypeOK
<1>s. UNCHANGED payments /\ KeepsSettling => PaidRowsSettled'
  BY PaidRowsStable
<1>1. ASSUME NEW h \in Handlers,
             \/ \E b \in BudgetIds, method \in PaymentMethod,
                   kind \in PaymentKind, u \in Users :
                  CreateCheckout(h, b, method, kind, u)
             \/ \E s \in ScheduleIds, method \in PaymentMethod, u \in Users :
                  CreateVisitCheckout(h, s, method, u)
             \/ AssertNotAlreadyPaid(h)
             \/ FindReusablePix(h)
             \/ CreatePixCharge(h)
             \/ ChargeCard(h)
             \/ CardDeclined(h)
             \/ \E i \in DOMAIN payments, u \in Users : FindById(h, i, u)
             \/ \E c \in notices : HandleWebhook(h, c)
             \/ GatewayAnswers(h)
             \/ GatewayFails(h)
             \/ Abort(h)
             \/ IsRefused(h)
      PROVE  PaidRowsSettled'
  <2>1. UNCHANGED payments /\ UNCHANGED budgets /\ handlers[h].pc # "settle"
    BY <1>1
       DEF CreateCheckout, CreateVisitCheckout, AssertNotAlreadyPaid, FindReusablePix,
           CreatePixCharge, ChargeCard, CardDeclined, FindById, HandleWebhook,
           GatewayAnswers, GatewayFails, Abort, CutOff, IsRefused, Idle
  <2>2. \E r : handlers' = [handlers EXCEPT ![h] = r]
    BY <1>1
       DEF CreateCheckout, CreateVisitCheckout, AssertNotAlreadyPaid, FindReusablePix,
           CreatePixCharge, ChargeCard, CardDeclined, FindById, HandleWebhook,
           GatewayAnswers, GatewayFails, Abort, CutOff, IsRefused
  <2> QED
    BY <1>t, <1>s, <2>1, <2>2, MovesKeepSettling
<1>2. ASSUME NEW h \in Handlers, Inserts(h) PROVE PaidRowsSettled'
  <2>1. PICK row : row = handlers[h].row
    OBVIOUS
  <2>2. PICK n : n = Len(payments) + 1
    OBVIOUS
  <2>3. row \in PaymentRow
    BY <1>2, <1>t, <2>1, HandlerCases DEF Inserts, Inserting
  <2>4. payments' = Append(payments, row)
    BY <1>2, <2>1 DEF Inserts
  <2>5. /\ n \in DOMAIN payments' /\ payments'[n] = row
        /\ \A i \in DOMAIN payments' \ {n} :
             i \in DOMAIN payments /\ payments'[i] = payments[i]
    BY <1>t, <2>2, <2>3, <2>4, AppendFacts
  <2>6. handlers' = [handlers EXCEPT ![h] =
          AfterWrite(payments'[n].target, payments'[n].status, 0)]
    BY <1>2, <2>1, <2>5 DEF Inserts
  <2>7. handlers[h].pc # "settle" /\ UNCHANGED budgets
    BY <1>2 DEF Inserts
  <2> QED
    BY <1>t, <2>5, <2>6, <2>7, WriteIsAwaited
<1>3. ASSUME NEW h \in Handlers, UpdatePayment(h) PROVE PaidRowsSettled'
  <2>1. PICK i : i = handlers[h].payment
    OBVIOUS
  <2>2. i \in DOMAIN payments
    BY <1>3, <1>t, <2>1 DEF UpdatePayment, TypeOK
  <2>3. payments' = [payments EXCEPT ![i].status = handlers[h].status]
    BY <1>3, <2>1 DEF UpdatePayment
  <2>4. /\ i \in DOMAIN payments'
        /\ payments'[i].target = payments[i].target
        /\ payments'[i].status = handlers[h].status
        /\ \A j \in DOMAIN payments' \ {i} :
             j \in DOMAIN payments /\ payments'[j] = payments[j]
    <3>1. payments[i] \in PaymentRow /\ DOMAIN payments' = DOMAIN payments
      BY <1>t, <2>2, <2>3
    <3>2. payments'[i] = [payments[i] EXCEPT !.status = handlers[h].status]
      BY <2>2, <2>3
    <3>3. \A j \in DOMAIN payments \ {i} : payments'[j] = payments[j]
      BY <2>3
    <3> QED
      BY <2>2, <3>1, <3>2, <3>3 DEF PaymentRow
  <2>5. handlers' = [handlers EXCEPT ![h] =
          AfterWrite(payments'[i].target, payments'[i].status, handlers[h].notice)]
    BY <1>3, <2>1, <2>4 DEF UpdatePayment
  <2>6. handlers[h].pc # "settle" /\ UNCHANGED budgets
    BY <1>3 DEF UpdatePayment
  <2> QED
    BY <1>t, <2>4, <2>5, <2>6, WriteIsAwaited
<1>4. ASSUME NEW h \in Handlers, MarkBudgetPaid(h) PROVE PaidRowsSettled'
  <2>1. PICK b \in BudgetIds : b = handlers[h].budget
    BY <1>4, <1>t, HandlerCases DEF MarkBudgetPaid, Settling
  <2>2. /\ budgets'[b].status = "PAID"
        /\ \A d \in BudgetIds \ {b} : budgets'[d] = budgets[d]
        /\ \A g \in Handlers \ {h} : handlers'[g] = handlers[g]
        /\ UNCHANGED payments
    BY <1>4, <1>t, <2>1 DEF MarkBudgetPaid, TypeOK, TablesTypeOK, BudgetRow
  <2> QED
    BY <2>1, <2>2 DEF PaidRowsSettled
<1>5. ASSUME NEW i \in DOMAIN payments, PixExpires(i) PROVE PaidRowsSettled'
  <2>1. /\ DOMAIN payments' = DOMAIN payments
        /\ \A j \in DOMAIN payments :
             /\ payments'[j].target = payments[j].target
             /\ payments'[j].status = payments[j].status
    BY <1>5, <1>t DEF PixExpires, PaymentRow
  <2>2. KeepsSettling
    BY <1>5 DEF PixExpires, KeepsSettling
  <2> QED
    BY <2>1, <2>2, PaidRowsStable
<1>6. CASE \/ \E c \in DOMAIN charges : Advances(c) \/ Repeats(c)
           \/ \E h \in Handlers, c \in notices : UnknownPayment(h, c)
           \/ UNCHANGED vars
  <2>1. UNCHANGED <<payments, budgets, handlers>>
    BY <1>6 DEF Advances, Repeats, UnknownPayment, vars
  <2> QED
    BY <1>s, <2>1 DEF KeepsSettling
<1> QED
  BY <1>1, <1>2, <1>3, <1>4, <1>5, <1>6, InsertCases
     DEF Next, Starts, Continues, Environment

\* If no request is cut off between the write of PAID and markBudgetPaid, a
\* PAID payment of a budget has it PAID or a request about to see to it,
\* however the other requests interleave.
THEOREM PaidRowsSettledCorrect ==
  ASSUME "settle" \notin CrashPoints
  PROVE  Spec => []PaidRowsSettled
<1>1. Init => PaidRowsSettled
  BY DEF Init, PaidRowsSettled
<1> QED
  BY <1>1, InitIInv, StepIInv, StepPaidRows, PTL DEF Spec

-----------------------------------------------------------------------------
(* Every charge is tracked.                                                *)

Tracked(c) ==
  \/ ~TargetExists(charges[c].target)
  \/ \E i \in DOMAIN payments : payments[i].charge = c
  \/ \E h \in Handlers : handlers[h].pc = "insert" /\ handlers[h].row.charge = c

\* The requests about to insert a payment stay there.
KeepsInserting ==
  \A g \in Handlers : handlers[g].pc = "insert" => handlers'[g] = handlers[g]

\* A charge stays tracked as long as its target stays what it is.
LEMMA TrackedStable ==
  ASSUME Grows, KeepsCharges, KeepsInserting, UNCHANGED schedules,
         NEW c \in DOMAIN charges, Tracked(c)
  PROVE  Tracked(c)'
<1>1. charges'[c].target = charges[c].target
  BY DEF Grows
<1>2. CASE ~TargetExists(charges[c].target)
  BY <1>1, <1>2 DEF Tracked, TargetExists
<1>3. CASE \E i \in DOMAIN payments : payments[i].charge = c
  BY <1>3 DEF KeepsCharges, Tracked
<1>4. CASE \E h \in Handlers : handlers[h].pc = "insert" /\ handlers[h].row.charge = c
  BY <1>4 DEF KeepsInserting, Tracked
<1> QED
  BY <1>2, <1>3, <1>4 DEF Tracked

\* A step that makes no charge and loses no request that is to insert one.
LEMMA ChargesStayTracked ==
  ASSUME ChargeIsTracked, Grows, DOMAIN charges' = DOMAIN charges, KeepsCharges,
         KeepsInserting, UNCHANGED schedules
  PROVE  ChargeIsTracked'
<1>1. \A c \in DOMAIN charges : Tracked(c)
  BY DEF ChargeIsTracked, Tracked
<1>2. \A c \in DOMAIN charges : Tracked(c)'
  BY <1>1, TrackedStable
<1> QED
  BY <1>2 DEF ChargeIsTracked, Tracked

LEMMA MovesKeepInserting ==
  ASSUME TypeOK, NEW h \in Handlers, NEW r, handlers[h].pc # "insert",
         handlers' = [handlers EXCEPT ![h] = r]
  PROVE  KeepsInserting
  BY DEF KeepsInserting, TypeOK

LEMMA StepTracked ==
  ASSUME "insert" \notin CrashPoints
  PROVE  IInv /\ ChargeIsTracked /\ [Next]_vars => ChargeIsTracked'
<1> SUFFICES ASSUME IInv, ChargeIsTracked, [Next]_vars PROVE ChargeIsTracked'
  OBVIOUS
<1> USE DEF tables
<1>t. TypeOK /\ payments \in Seq(PaymentRow)
  BY DEF IInv, TypeOK, TablesTypeOK
<1>1. ASSUME NEW h \in Handlers,
             \/ \E b \in BudgetIds, method \in PaymentMethod,
                   kind \in PaymentKind, u \in Users :
                  CreateCheckout(h, b, method, kind, u)
             \/ \E s \in ScheduleIds, method \in PaymentMethod, u \in Users :
                  CreateVisitCheckout(h, s, method, u)
             \/ AssertNotAlreadyPaid(h)
             \/ FindReusablePix(h)
             \/ CardDeclined(h)
             \/ \E i \in DOMAIN payments, u \in Users : FindById(h, i, u)
             \/ \E c \in notices : HandleWebhook(h, c)
             \/ GatewayAnswers(h)
             \/ GatewayFails(h)
             \/ MarkBudgetPaid(h)
             \/ Abort(h)
      PROVE  ChargeIsTracked'
  <2>1. UNCHANGED <<schedules, payments, charges>> /\ handlers[h].pc # "insert"
    BY <1>1
       DEF CreateCheckout, CreateVisitCheckout, AssertNotAlreadyPaid, FindReusablePix,
           CardDeclined, FindById, HandleWebhook, GatewayAnswers, GatewayFails,
           MarkBudgetPaid, Abort, CutOff, Idle
  <2>2. \E r : handlers' = [handlers EXCEPT ![h] = r]
    BY <1>1
       DEF CreateCheckout, CreateVisitCheckout, AssertNotAlreadyPaid, FindReusablePix,
           CardDeclined, FindById, HandleWebhook, GatewayAnswers, GatewayFails,
           MarkBudgetPaid, Abort, CutOff
  <2> QED
    BY <1>t, <2>1, <2>2, Unchanged, MovesKeepInserting, ChargesStayTracked
<1>2. ASSUME NEW h \in Handlers, CreatePixCharge(h) \/ ChargeCard(h)
      PROVE  ChargeIsTracked'
  <2>1. PICK n : n = Len(charges) + 1
    OBVIOUS
  <2>2. PICK s \in ChargeStatus : PostCharge(handlers[h].target, s)
    BY <1>2, GatewayAssumption DEF CreatePixCharge, ChargeCard, ChargeStatus
  <2>3. PICK status : handlers' = [handlers EXCEPT ![h] =
          [pc |-> "insert", row |-> NewRow(handlers[h], status, n)]]
    BY <1>2, <2>1 DEF CreatePixCharge, ChargeCard
  <2>4. /\ handlers[h].target \in Targets
        /\ handlers[h].pc # "insert"
        /\ UNCHANGED <<schedules, payments>>
    BY <1>2, <1>t, HandlerCases DEF CreatePixCharge, ChargeCard, Checkout
  <2>5. Grows /\ KeepsCharges /\ KeepsInserting
    BY <1>t, <2>2, <2>3, <2>4, PostChargeGrows, Unchanged, MovesKeepInserting DEF IInv
  <2>6. DOMAIN charges' = DOMAIN charges \cup {n}
    <3> DEFINE new == [target |-> handlers[h].target, status |-> s, seen |-> {s}]
    <3>1. new \in Charge /\ charges \in Seq(Charge)
      BY <1>t, <2>4 DEF Charge, TypeOK, GatewayTypeOK
    <3> QED
      BY <2>1, <2>2, <3>1, AppendFacts DEF PostCharge
  <2>7. Tracked(n)'
    <3>1. handlers'[h] = [pc |-> "insert", row |-> NewRow(handlers[h], status, n)]
      BY <1>t, <2>3 DEF TypeOK
    <3> QED
      BY <3>1 DEF Tracked, NewRow
  <2>8. \A c \in DOMAIN charges : Tracked(c)'
    BY <2>4, <2>5, TrackedStable DEF ChargeIsTracked, Tracked
  <2> QED
    BY <2>6, <2>7, <2>8 DEF ChargeIsTracked, Tracked
<1>3. ASSUME NEW h \in Handlers, InsertPayment(h) PROVE ChargeIsTracked'
  <2>1. PICK row : row = handlers[h].row
    OBVIOUS
  <2>2. /\ row \in PaymentRow
        /\ RowBacked(row)
        /\ UNCHANGED <<schedules, charges>>
        /\ handlers[h].pc = "insert"
    BY <1>3, <1>t, <2>1, HandlerCases
       DEF InsertPayment, Inserting, IInv, RequestsBacked, RequestBacked
  <2>3. \A g \in Handlers \ {h} : handlers'[g] = handlers[g]
    BY <1>3, <1>t DEF InsertPayment, TypeOK
  <2> SUFFICES ASSUME NEW c \in DOMAIN charges PROVE Tracked(c)'
    BY <2>2 DEF ChargeIsTracked, Tracked
  <2>4. Tracked(c)
    BY DEF ChargeIsTracked, Tracked
  <2>5. CASE ~TargetExists(charges[c].target)
    BY <2>2, <2>5 DEF Tracked, TargetExists
  <2>6. CASE TargetExists(row.target) /\ TargetExists(charges[c].target)
    <3>1. payments' = Append(payments, row)
      BY <1>3, <2>1, <2>6 DEF InsertPayment
    <3>2. /\ DOMAIN payments' = DOMAIN payments \cup {Len(payments) + 1}
          /\ \A i \in DOMAIN payments : payments'[i] = payments[i]
          /\ payments'[Len(payments) + 1] = row
      BY <1>t, <2>2, <3>1, AppendFacts
    <3>3. row.charge = c => Tracked(c)'
      BY <3>2 DEF Tracked
    <3>4. row.charge # c => Tracked(c)'
      BY <2>1, <2>3, <2>4, <2>6, <3>2 DEF Tracked
    <3> QED
      BY <3>3, <3>4
  <2>7. CASE ~TargetExists(row.target) /\ TargetExists(charges[c].target)
    <3>1. UNCHANGED payments
      BY <1>3, <2>1, <2>7 DEF InsertPayment
    <3>2. row.charge # c
      <4>1. row.target # NoTarget
        BY <2>7, SchemaAssumption DEF TargetExists
      <4>2. c # 0
        BY <1>t DEF TypeOK, GatewayTypeOK
      <4> QED
        BY <2>2, <2>7, <4>1, <4>2 DEF RowBacked
    <3> QED
      BY <2>1, <2>3, <2>4, <2>7, <3>1, <3>2 DEF Tracked
  <2> QED
    BY <2>5, <2>6, <2>7
<1>4. ASSUME NEW h \in Handlers, UpdatePayment(h) PROVE ChargeIsTracked'
  <2>1. PICK i : i = handlers[h].payment
    OBVIOUS
  <2>2. i \in DOMAIN payments
    BY <1>4, <1>t, <2>1 DEF UpdatePayment, TypeOK
  <2>3. payments' = [payments EXCEPT ![i].status = handlers[h].status]
    BY <1>4, <2>1 DEF UpdatePayment
  <2>4. KeepsCharges
    BY <1>t, <2>2, <2>3 DEF KeepsCharges, PaymentRow
  <2>5. UNCHANGED <<schedules, charges>> /\ KeepsInserting
    BY <1>4, <1>t, MovesKeepInserting DEF UpdatePayment
  <2> QED
    BY <2>4, <2>5, Unchanged, ChargesStayTracked
<1>5. ASSUME NEW i \in DOMAIN payments, PixExpires(i) PROVE ChargeIsTracked'
  <2>1. KeepsCharges
    BY <1>5, <1>t DEF PixExpires, KeepsCharges, PaymentRow
  <2>2. UNCHANGED <<schedules, charges>> /\ KeepsInserting
    BY <1>5 DEF PixExpires, KeepsInserting
  <2> QED
    BY <2>1, <2>2, Unchanged, ChargesStayTracked
<1>6. ASSUME NEW c \in DOMAIN charges, Advances(c) PROVE ChargeIsTracked'
  <2>1. Grows /\ DOMAIN charges' = DOMAIN charges
    BY <1>6, <1>t, AdvancesGrows DEF Advances, ProviderAdvances, IInv, TypeOK, GatewayTypeOK
  <2>2. KeepsCharges /\ KeepsInserting /\ UNCHANGED schedules
    BY <1>6, Unchanged DEF Advances, KeepsInserting
  <2> QED
    BY <2>1, <2>2, ChargesStayTracked
<1>7. CASE \/ \E c \in DOMAIN charges : Repeats(c)
           \/ \E h \in Handlers, c \in notices : UnknownPayment(h, c)
           \/ UNCHANGED vars
  <2>1. UNCHANGED <<schedules, payments, charges, handlers>>
    BY <1>7 DEF Repeats, ProviderRepeats, UnknownPayment, vars
  <2> QED
    BY <2>1, Unchanged, ChargesStayTracked DEF KeepsInserting
<1> QED
  BY <1>1, <1>2, <1>3, <1>4, <1>5, <1>6, <1>7
     DEF Next, Starts, Continues, Environment

\* If no request is cut off between the POST and payment.create, every charge
\* the provider made has a payment or a request about to insert it, unless
\* the visit it was for is deleted.
THEOREM ChargeIsTrackedCorrect ==
  ASSUME "insert" \notin CrashPoints
  PROVE  Spec => []ChargeIsTracked
<1>1. Init => ChargeIsTracked
  BY DEF Init, ChargeIsTracked
<1> QED
  BY <1>1, InitIInv, StepIInv, StepTracked, PTL DEF Spec

-----------------------------------------------------------------------------
(* The flow implements Settlement.                                         *)

Collected == {b \in BudgetIds : Approved(b)}
Settled == {b \in BudgetIds : budgets[b].status = "PAID"}

\* A step that touches one charge approves one for its target at most.
LEMMA ApprovesOne ==
  ASSUME NEW c \in DOMAIN charges',
         \A d \in DOMAIN charges' \ {c} :
           d \in DOMAIN charges /\ charges'[d] = charges[d]
  PROVE  \E t : \A x : Approved(x)' => Approved(x) \/ x = t
<1>1. PICK t : t = charges'[c].target
  OBVIOUS
<1>2. ASSUME NEW x, Approved(x)' PROVE Approved(x) \/ x = t
  <2>1. PICK d \in DOMAIN charges' :
          charges'[d].target = x /\ "approved" \in charges'[d].seen
    BY <1>2 DEF Approved
  <2>2. CASE d = c
    BY <1>1, <2>1, <2>2
  <2>3. CASE d # c
    BY <2>1, <2>3 DEF Approved
  <2> QED
    BY <2>2, <2>3
<1> QED
  BY <1>2

\* The steps that concern money: a POST or the provider, for one target, and
\* markBudgetPaid.
LEMMA MoneySteps ==
  ASSUME IInv, [Next]_vars
  PROVE  \/ UNCHANGED <<charges, budgets>>
         \/ \E h \in Handlers : MarkBudgetPaid(h)
         \/ /\ UNCHANGED budgets
            /\ Grows
            /\ \E t : \A x : Approved(x)' => Approved(x) \/ x = t
<1>t. TypeOK /\ ChargesSeen
  BY DEF IInv
<1>1. ASSUME NEW h \in Handlers, CreatePixCharge(h) \/ ChargeCard(h)
      PROVE  /\ UNCHANGED budgets
             /\ Grows
             /\ \E t : \A x : Approved(x)' => Approved(x) \/ x = t
  <2>1. handlers[h].target \in Targets
    BY <1>1, <1>t, HandlerCases DEF CreatePixCharge, ChargeCard, Checkout
  <2>2. PICK s \in ChargeStatus : PostCharge(handlers[h].target, s)
    BY <1>1, GatewayAssumption DEF CreatePixCharge, ChargeCard, ChargeStatus
  <2>3. Grows /\ Len(charges) + 1 \in DOMAIN charges'
    BY <1>t, <2>1, <2>2, PostChargeGrows
  <2>4. \A d \in DOMAIN charges' \ {Len(charges) + 1} :
          d \in DOMAIN charges /\ charges'[d] = charges[d]
    <3> DEFINE new == [target |-> handlers[h].target, status |-> s, seen |-> {s}]
    <3>1. new \in Charge /\ charges \in Seq(Charge)
      BY <1>t, <2>1 DEF Charge, TypeOK, GatewayTypeOK
    <3>2. charges' = Append(charges, new)
      BY <2>2 DEF PostCharge
    <3> QED
      BY <3>1, <3>2, AppendFacts
  <2>5. UNCHANGED budgets
    BY <1>1 DEF CreatePixCharge, ChargeCard, tables
  <2> QED
    BY <2>3, <2>4, <2>5, ApprovesOne
<1>2. ASSUME NEW c \in DOMAIN charges, Advances(c)
      PROVE  /\ UNCHANGED budgets
             /\ Grows
             /\ \E t : \A x : Approved(x)' => Approved(x) \/ x = t
  <2>1. Grows
    BY <1>2, <1>t, AdvancesGrows DEF Advances
  <2>2. PICK s : charges' = [charges EXCEPT ![c].status = s, ![c].seen = @ \cup {s}]
    BY <1>2 DEF Advances, ProviderAdvances
  <2>3. /\ c \in DOMAIN charges'
        /\ \A d \in DOMAIN charges' \ {c} :
             d \in DOMAIN charges /\ charges'[d] = charges[d]
    BY <1>t, <2>2 DEF TypeOK, GatewayTypeOK
  <2>4. UNCHANGED budgets
    BY <1>2 DEF Advances, tables
  <2> QED
    BY <2>1, <2>3, <2>4, ApprovesOne
<1> QED
  BY <1>1, <1>2, InsertCases
     DEF Next, Starts, Continues, Environment, CreateCheckout, CreateVisitCheckout,
         AssertNotAlreadyPaid, FindReusablePix, CardDeclined, Inserts, IsRefused,
         FindById, HandleWebhook, UnknownPayment, GatewayAnswers, UpdatePayment,
         GatewayFails, Abort, CutOff, PixExpires, Repeats, ProviderRepeats, vars,
         tables

\* An approval for one target collects for it at most.
LEMMA CollectsOne ==
  ASSUME NEW t, Grows, UNCHANGED budgets,
         \A x : Approved(x)' => Approved(x) \/ x = t
  PROVE  [Promise!Next]_<<Collected, Settled>>
<1>1. Settled' = Settled
  BY DEF Settled
<1>2. /\ Collected \subseteq Collected'
      /\ \A b \in Collected' \ Collected : b = t
  BY ApprovedStable DEF Collected
<1>3. CASE Collected' = Collected
  BY <1>1, <1>3
<1>4. CASE Collected' # Collected
  <2>1. Collected' = Collected \cup {t} /\ t \in BudgetIds
    BY <1>2, <1>4 DEF Collected
  <2> QED
    BY <1>1, <2>1 DEF Promise!Next, Promise!Collect, Collected, Settled
<1> QED
  BY <1>3, <1>4

LEMMA StepPromise ==
  IInv /\ [Next]_vars => [Promise!Next]_<<Collected, Settled>>
<1> SUFFICES ASSUME IInv, [Next]_vars
             PROVE  [Promise!Next]_<<Collected, Settled>>
  OBVIOUS
<1>t. TypeOK
  BY DEF IInv
<1>1. CASE UNCHANGED <<charges, budgets>>
  BY <1>1 DEF Collected, Settled, Approved
<1>2. ASSUME NEW h \in Handlers, MarkBudgetPaid(h)
      PROVE  [Promise!Next]_<<Collected, Settled>>
  <2>1. PICK b \in BudgetIds : b = handlers[h].budget /\ Approved(b)
    BY <1>2, <1>t, HandlerCases
       DEF IInv, MarkBudgetPaid, Settling, RequestsBacked, RequestBacked
  <2>2. budgets' = [budgets EXCEPT ![b].status = "PAID"] /\ charges' = charges
    BY <1>2, <2>1 DEF MarkBudgetPaid
  <2>3. Settled' = Settled \cup {b}
    BY <1>t, <2>2 DEF Settled, TypeOK, TablesTypeOK, BudgetRow
  <2>4. Collected' = Collected /\ b \in Collected
    BY <2>1, <2>2 DEF Collected, Approved
  <2> QED
    BY <2>1, <2>3, <2>4 DEF Promise!Next, Promise!Settle, Collected, Settled
<1> QED
  BY <1>1, <1>2, MoneySteps, CollectsOne

\* Spec implements the abstract settlement: money first, then PAID, and PAID
\* for good.  The map takes the approved budgets and the PAID ones.
THEOREM KeepsPromiseCorrect == Spec => KeepsPromise
<1>1. Init => Promise!Init
  BY DEF Init, Promise!Init, Approved
<1> QED
  BY <1>1, InitIInv, StepIInv, StepPromise, PTL
     DEF Spec, KeepsPromise, Promise!Spec, Collected, Settled
=============================================================================
