------------------------- MODULE MarketplaceProofs -------------------------
(***************************************************************************)
(* Theorems about Marketplace, for every number of requests of each        *)
(* component, every way they interleave and wherever they are cut off.     *)
(* A step of Payments is the same here as in PaymentsProofs, so what is    *)
(* proved of it there is used; the steps of Budgets and Schedules are new. *)
(***************************************************************************)
EXTENDS Marketplace, OneRequestProofs

-----------------------------------------------------------------------------
(* What the steps of a component do to the tables of the others.           *)

\* A budget request that does not write.
BudgetLooks(r) ==
  \/ \E s \in ScheduleIds, u \in Users : B!ReadSchedule(r, s, u)
  \/ B!CheckVisitFee(r)
  \/ B!CheckActiveBudget(r)
  \/ \E b \in BudgetIds, u \in Users, status \in B!Answer : B!ReadBudget(r, b, u, status)
  \/ B!GiveUp(r)

LEMMA BudgetCases ==
  ASSUME B!RequestsNext
  PROVE  \E r \in BudgetRequests :
           \/ BudgetLooks(r)
           \/ \E b \in BudgetIds : B!InsertBudget(r, b)
           \/ B!WriteAnswer(r)
  BY DEF B!RequestsNext, BudgetLooks

LEMMA BudgetLooksOnly ==
  ASSUME NEW r, BudgetLooks(r)
  PROVE  UNCHANGED <<schedules, budgets, payments>>
  BY DEF BudgetLooks, B!ReadSchedule, B!CheckVisitFee, B!CheckActiveBudget,
         B!ReadBudget, B!GiveUp

\* A visit or job request that does not write.
VisitLooks(v) ==
  \/ \E s \in ScheduleIds, status \in S!ScheduleStatus \cup {"same"} :
       S!FindToUpdate(v, s, status)
  \/ \E s \in ScheduleIds : S!FindToRemove(v, s)
  \/ \E j \in JobIds, pc \in {"edit", "withdraw"} : S!FindJob(v, j, pc)
  \/ S!UpdateJob(v)
  \/ S!GiveUp(v)

LEMMA VisitCases ==
  ASSUME S!VisitsNext
  PROVE  \/ \E j \in JobIds : S!CreateJob(j)
         \/ \E s \in ScheduleIds : S!CreateSchedule(s)
         \/ \E v \in VisitRequests :
              \/ VisitLooks(v)
              \/ S!UpdateSchedule(v)
              \/ S!DeleteSchedule(v)
              \/ S!DeleteJob(v)
  BY DEF S!VisitsNext, VisitLooks

LEMMA VisitLooksOnly ==
  ASSUME NEW v, VisitLooks(v)
  PROVE  UNCHANGED <<schedules, budgets, payments, jobs>>
  BY DEF VisitLooks, S!FindToUpdate, S!FindToRemove, S!FindJob, S!UpdateJob, S!GiveUp

\* Payments leaves the schedules alone, and of the budgets settles the one it
\* was about to.
LEMMA PaymentsSteps ==
  ASSUME TypeOK, [Next]_vars
  PROVE  /\ UNCHANGED schedules
         /\ \A b \in BudgetIds :
              \/ budgets'[b] = budgets[b]
              \/ /\ \E h \in Handlers : handlers[h].pc = "settle" /\ handlers[h].budget = b
                 /\ budgets'[b] = [budgets[b] EXCEPT !.status = "PAID"]
<1>1. ASSUME NEW h \in Handlers, MarkBudgetPaid(h), NEW b \in BudgetIds
      PROVE  \/ budgets'[b] = budgets[b]
             \/ /\ handlers[h].pc = "settle" /\ handlers[h].budget = b
                /\ budgets'[b] = [budgets[b] EXCEPT !.status = "PAID"]
  <2>1. /\ budgets' = [budgets EXCEPT ![handlers[h].budget].status = "PAID"]
        /\ handlers[h].pc = "settle"
        /\ budgets \in [BudgetIds -> BudgetRow]
    BY <1>1 DEF MarkBudgetPaid, TypeOK, TablesTypeOK
  <2> QED
    BY <2>1
<1>2. ASSUME NEW h \in Handlers, MarkBudgetPaid(h)
      PROVE  UNCHANGED schedules
  BY <1>2 DEF MarkBudgetPaid
<1> QED
  BY <1>1, <1>2
     DEF Next, Starts, Continues, Environment, CreateCheckout, CreateVisitCheckout,
         AssertNotAlreadyPaid, FindReusablePix, CreatePixCharge, ChargeCard,
         CardDeclined, InsertPayment, FindById, HandleWebhook, UnknownPayment,
         GatewayAnswers, UpdatePayment, GatewayFails, Abort, CutOff, PixExpires,
         Advances, Repeats, vars, tables

\* What becomes of the payments when a visit is deleted.
LEMMA DeleteFacts ==
  ASSUME TypeOK, NEW v \in VisitRequests, S!DeleteSchedule(v)
  PROVE  /\ payments' \in Seq(PaymentRow)
         /\ DOMAIN payments' = DOMAIN payments
         /\ \A i \in DOMAIN payments :
              /\ \/ payments'[i] = payments[i]
                 \/ /\ payments[i].target = visits[v].schedule
                    /\ payments'[i].target = NoTarget
              /\ payments'[i].status = payments[i].status
              /\ payments'[i].charge = payments[i].charge
              /\ payments'[i].method = payments[i].method
              /\ payments'[i].pixValid = payments[i].pixValid
<1> DEFINE row(i) == IF payments[i].target = visits[v].schedule
                       THEN [payments[i] EXCEPT !.target = NoTarget]
                       ELSE payments[i]
<1>1. payments \in Seq(PaymentRow)
  BY DEF TypeOK, TablesTypeOK
<1>2. payments' = [i \in DOMAIN payments |-> row(i)]
  BY DEF S!DeleteSchedule
<1>3. DOMAIN payments = 1 .. Len(payments) /\ Len(payments) \in Nat
  BY <1>1
<1>4. ASSUME NEW i \in DOMAIN payments
      PROVE  /\ row(i) \in PaymentRow
             /\ row(i).status = payments[i].status
             /\ row(i).charge = payments[i].charge
             /\ row(i).method = payments[i].method
             /\ row(i).pixValid = payments[i].pixValid
             /\ row(i) # payments[i] =>
                  payments[i].target = visits[v].schedule /\ row(i).target = NoTarget
  <2>1. payments[i] \in PaymentRow
    BY <1>1
  <2> QED
    BY <2>1 DEF PaymentRow
<1> HIDE DEF row
<1>5. payments' \in Seq(PaymentRow)
  BY <1>2, <1>3, <1>4, IsASeq
<1> QED
  BY <1>2, <1>4, <1>5

-----------------------------------------------------------------------------
(* Types.                                                                  *)

LEMMA MarketInitType == MarketInit => MarketTypeOK
<1> SUFFICES ASSUME MarketInit PROVE MarketTypeOK
  OBVIOUS
<1>1. TablesTypeOK
  BY DEF MarketInit, S!VisitsInit, TablesTypeOK, BudgetRow
<1>2. GatewayTypeOK
  BY DEF MarketInit, GatewayTypeOK
<1>3. /\ handlers \in [Handlers -> Handler]
      /\ \A h \in Handlers : handlers[h].pc = "idle"
  BY DEF MarketInit, Handler, Idle
<1>4. B!RequestsTypeOK
  BY DEF MarketInit, B!RequestsInit, B!RequestsTypeOK, B!Idle
<1>5. S!VisitsTypeOK
  BY DEF MarketInit, S!VisitsInit, S!VisitsTypeOK
<1> QED
  BY <1>1, <1>2, <1>3, <1>4, <1>5 DEF TypeOK, MarketTypeOK

\* A step that gives request r the record x keeps the budget requests typed, if
\* no budget goes back to NONE.
LEMMA RequestsStep ==
  ASSUME B!RequestsTypeOK, NEW r \in BudgetRequests,
         NEW x \in {B!Idle} \cup B!Creating \cup B!Answering,
         requests' = [requests EXCEPT ![r] = x],
         x.pc = "answer" => budgets'[x.budget].status # "NONE",
         \A b \in BudgetIds : budgets[b].status # "NONE" => budgets'[b].status # "NONE"
  PROVE  B!RequestsTypeOK'
<1>1. requests' \in [BudgetRequests -> {B!Idle} \cup B!Creating \cup B!Answering]
  BY DEF B!RequestsTypeOK
<1>2. ASSUME NEW q \in BudgetRequests, requests'[q].pc = "answer"
      PROVE  budgets'[requests'[q].budget].status # "NONE"
  <2>1. CASE q = r
    BY <2>1, <1>2 DEF B!RequestsTypeOK
  <2>2. CASE q # r
    <3>1. requests'[q] = requests[q] /\ requests[q] \in B!Answering
      BY <2>2, <1>2 DEF B!RequestsTypeOK, B!Idle, B!Creating, B!Answering
    <3> QED
      BY <3>1, <1>2 DEF B!RequestsTypeOK, B!Answering
  <2> QED
    BY <2>1, <2>2
<1> QED
  BY <1>1, <1>2 DEF B!RequestsTypeOK

\* A budget request's record is told by its pc.
LEMMA RequestCases ==
  ASSUME B!RequestsTypeOK, NEW r \in BudgetRequests
  PROVE  /\ requests[r] \in {B!Idle} \cup B!Creating \cup B!Answering
         /\ requests[r].pc \in {"checkVisit", "checkActive", "insert"}
              => requests[r] \in B!Creating
         /\ requests[r].pc = "answer" => requests[r] \in B!Answering
  BY DEF B!RequestsTypeOK, B!Idle, B!Creating, B!Answering

LEMMA VisitRequestCases ==
  ASSUME S!VisitsTypeOK, NEW v \in VisitRequests
  PROVE  /\ visits[v].pc = "update" => visits[v] \in S!Updating
         /\ visits[v].pc = "remove" => visits[v] \in S!Removing
         /\ visits[v].pc \in {"edit", "withdraw"} => visits[v] \in S!OnJob
  BY DEF S!VisitsTypeOK, S!Idle, S!Updating, S!Removing, S!OnJob

LEMMA BudgetStepType == MarketTypeOK /\ B!RequestsNext =>
                          TablesTypeOK' /\ B!RequestsTypeOK'
<1> SUFFICES ASSUME MarketTypeOK, B!RequestsNext
             PROVE  TablesTypeOK' /\ B!RequestsTypeOK'
  OBVIOUS
<1>t. TablesTypeOK /\ B!RequestsTypeOK /\ budgets \in [BudgetIds -> BudgetRow]
  BY DEF MarketTypeOK, TypeOK, TablesTypeOK
<1>u. UNCHANGED <<schedules, budgets, payments>> => TablesTypeOK'
  BY <1>t DEF TablesTypeOK
<1>1. ASSUME NEW r \in BudgetRequests, NEW s \in ScheduleIds, NEW u \in Users,
             B!ReadSchedule(r, s, u)
      PROVE  TablesTypeOK' /\ B!RequestsTypeOK'
  <2> DEFINE x == [pc |-> "checkVisit", schedule |-> s]
  <2>1. x \in B!Creating
    BY DEF B!Creating
  <2> QED
    BY <1>1, <1>t, <1>u, <2>1, RequestsStep DEF B!ReadSchedule
<1>2. ASSUME NEW r \in BudgetRequests, B!CheckVisitFee(r) \/ B!CheckActiveBudget(r)
      PROVE  TablesTypeOK' /\ B!RequestsTypeOK'
  <2> DEFINE x == requests'[r]
  <2>1. requests' = [requests EXCEPT ![r] = x] /\ x \in {B!Idle} \cup B!Creating
    BY <1>2, <1>t, RequestCases
       DEF B!CheckVisitFee, B!CheckActiveBudget, B!RequestsTypeOK, B!Creating
  <2>2. x.pc # "answer"
    BY <2>1 DEF B!Idle, B!Creating
  <2> QED
    BY <1>2, <1>t, <1>u, <2>1, <2>2, RequestsStep DEF B!CheckVisitFee, B!CheckActiveBudget
<1>3. ASSUME NEW r \in BudgetRequests, NEW b \in BudgetIds, B!InsertBudget(r, b)
      PROVE  TablesTypeOK' /\ B!RequestsTypeOK'
  <2>1. requests[r] \in B!Creating
    BY <1>3, <1>t, RequestCases DEF B!InsertBudget
  <2>2. /\ budgets' \in [BudgetIds -> BudgetRow]
        /\ \A d \in BudgetIds : budgets[d].status # "NONE" => budgets'[d].status # "NONE"
    BY <1>3, <1>t, <2>1 DEF B!InsertBudget, B!Creating, BudgetRow, BudgetStatus
  <2>3. B!Idle.pc = "idle"
    BY DEF B!Idle
  <2> QED
    BY <1>3, <1>t, <2>2, <2>3, RequestsStep DEF B!InsertBudget, TablesTypeOK
<1>4. ASSUME NEW r \in BudgetRequests, NEW b \in BudgetIds, NEW u \in Users,
             NEW status \in B!Answer, B!ReadBudget(r, b, u, status)
      PROVE  TablesTypeOK' /\ B!RequestsTypeOK'
  <2> DEFINE x == [pc |-> "answer", budget |-> b, status |-> status]
  <2>1. x \in B!Answering
    BY DEF B!Answering
  <2> QED
    BY <1>4, <1>t, <1>u, <2>1, RequestsStep DEF B!ReadBudget
<1>5. ASSUME NEW r \in BudgetRequests, B!WriteAnswer(r)
      PROVE  TablesTypeOK' /\ B!RequestsTypeOK'
  <2>1. requests[r] \in B!Answering
    BY <1>5, <1>t, RequestCases DEF B!WriteAnswer
  <2>2. /\ budgets' \in [BudgetIds -> BudgetRow]
        /\ \A d \in BudgetIds : budgets[d].status # "NONE" => budgets'[d].status # "NONE"
    BY <1>5, <1>t, <2>1
       DEF B!WriteAnswer, B!Answering, B!Answer, BudgetRow, BudgetStatus
  <2>3. B!Idle.pc = "idle"
    BY DEF B!Idle
  <2> QED
    BY <1>5, <1>t, <2>2, <2>3, RequestsStep DEF B!WriteAnswer, TablesTypeOK
<1>6. ASSUME NEW r \in BudgetRequests, B!GiveUp(r)
      PROVE  TablesTypeOK' /\ B!RequestsTypeOK'
  <2>1. B!Idle.pc = "idle"
    BY DEF B!Idle
  <2> QED
    BY <1>6, <1>t, <1>u, <2>1, RequestsStep DEF B!GiveUp
<1> QED
  BY <1>1, <1>2, <1>3, <1>4, <1>5, <1>6 DEF B!RequestsNext

LEMMA VisitStepType == MarketTypeOK /\ S!VisitsNext =>
                         TablesTypeOK' /\ S!VisitsTypeOK'
<1> SUFFICES ASSUME MarketTypeOK, S!VisitsNext
             PROVE  TablesTypeOK' /\ S!VisitsTypeOK'
  OBVIOUS
<1>t. /\ TypeOK /\ TablesTypeOK /\ S!VisitsTypeOK
      /\ schedules \in [ScheduleIds -> ScheduleStatus \cup {"NONE", "DELETED"}]
      /\ jobs \in [JobIds -> {"NONE", "LIVE", "DELETED"}]
      /\ visits \in
           [VisitRequests -> {S!Idle} \cup S!Updating \cup S!Removing \cup S!OnJob]
  BY DEF MarketTypeOK, TypeOK, TablesTypeOK, S!VisitsTypeOK
<1>u. UNCHANGED <<schedules, budgets, payments>> => TablesTypeOK'
  BY <1>t DEF TablesTypeOK
<1>1. ASSUME NEW j \in JobIds, S!CreateJob(j) PROVE TablesTypeOK' /\ S!VisitsTypeOK'
  BY <1>1, <1>t, <1>u DEF S!CreateJob, S!VisitsTypeOK
<1>2. ASSUME NEW s \in ScheduleIds, S!CreateSchedule(s)
      PROVE  TablesTypeOK' /\ S!VisitsTypeOK'
  BY <1>2, <1>t DEF S!CreateSchedule, S!VisitsTypeOK, TablesTypeOK, ScheduleStatus
<1>3. ASSUME NEW v \in VisitRequests, VisitLooks(v)
      PROVE  TablesTypeOK' /\ S!VisitsTypeOK'
  <2>1. \E x \in {S!Idle} \cup S!Updating \cup S!Removing \cup S!OnJob :
          visits' = [visits EXCEPT ![v] = x]
    <3>1. ASSUME NEW s \in ScheduleIds, NEW status \in S!ScheduleStatus \cup {"same"},
                 S!FindToUpdate(v, s, status)
          PROVE  \E x \in S!Updating : visits' = [visits EXCEPT ![v] = x]
      BY <3>1 DEF S!FindToUpdate, S!Updating
    <3>2. ASSUME NEW s \in ScheduleIds, S!FindToRemove(v, s)
          PROVE  \E x \in S!Removing : visits' = [visits EXCEPT ![v] = x]
      BY <3>2 DEF S!FindToRemove, S!Removing
    <3>3. ASSUME NEW j \in JobIds, NEW pc \in {"edit", "withdraw"}, S!FindJob(v, j, pc)
          PROVE  \E x \in S!OnJob : visits' = [visits EXCEPT ![v] = x]
      BY <3>3 DEF S!FindJob, S!OnJob
    <3>4. CASE S!UpdateJob(v) \/ S!GiveUp(v)
      BY <3>4 DEF S!UpdateJob, S!GiveUp
    <3> QED
      BY <1>3, <3>1, <3>2, <3>3, <3>4 DEF VisitLooks
  <2> QED
    BY <1>3, <1>t, <1>u, <2>1, VisitLooksOnly DEF S!VisitsTypeOK
<1>4. ASSUME NEW v \in VisitRequests, S!UpdateSchedule(v)
      PROVE  TablesTypeOK' /\ S!VisitsTypeOK'
  <2>1. visits[v] \in S!Updating
    BY <1>4, <1>t, VisitRequestCases DEF S!UpdateSchedule
  <2>2. schedules' \in [ScheduleIds -> ScheduleStatus \cup {"NONE", "DELETED"}]
    BY <1>4, <1>t, <2>1 DEF S!UpdateSchedule, S!Updating, S!ScheduleStatus, ScheduleStatus
  <2> QED
    BY <1>4, <1>t, <2>2 DEF S!UpdateSchedule, S!VisitsTypeOK, TablesTypeOK
<1>5. ASSUME NEW v \in VisitRequests, S!DeleteSchedule(v)
      PROVE  TablesTypeOK' /\ S!VisitsTypeOK'
  <2>1. payments' \in Seq(PaymentRow)
    BY <1>5, <1>t, DeleteFacts
  <2> QED
    BY <1>5, <1>t, <2>1 DEF S!DeleteSchedule, S!VisitsTypeOK, TablesTypeOK
<1>6. ASSUME NEW v \in VisitRequests, S!DeleteJob(v)
      PROVE  TablesTypeOK' /\ S!VisitsTypeOK'
  BY <1>6, <1>t, <1>u DEF S!DeleteJob, S!VisitsTypeOK
<1> QED
  BY <1>1, <1>2, <1>3, <1>4, <1>5, <1>6, VisitCases

\* Neither component touches a charge or a handler, and the payments stay as
\* many as they are.
LEMMA OthersKeepPayments ==
  ASSUME TypeOK, TablesTypeOK', UNCHANGED <<charges, notices, handlers>>,
         DOMAIN payments' = DOMAIN payments
  PROVE  TypeOK'
  BY DEF TypeOK, GatewayTypeOK

LEMMA OthersKeepIds ==
  ASSUME TypeOK, B!RequestsNext \/ S!VisitsNext
  PROVE  DOMAIN payments' = DOMAIN payments
<1>1. B!RequestsNext => UNCHANGED payments
  BY DEF B!RequestsNext, B!ReadSchedule, B!CheckVisitFee, B!CheckActiveBudget,
         B!InsertBudget, B!ReadBudget, B!WriteAnswer, B!GiveUp
<1>2. ASSUME NEW v \in VisitRequests, S!DeleteSchedule(v)
      PROVE  DOMAIN payments' = DOMAIN payments
  BY <1>2, DeleteFacts
<1> QED
  BY <1>1, <1>2, VisitCases, VisitLooksOnly
     DEF S!CreateJob, S!CreateSchedule, S!UpdateSchedule, S!DeleteJob

LEMMA MarketStepType == MarketTypeOK /\ [MarketNext]_marketVars => MarketTypeOK'
<1> SUFFICES ASSUME MarketTypeOK, [MarketNext]_marketVars PROVE MarketTypeOK'
  OBVIOUS
<1>t. TypeOK /\ B!RequestsTypeOK /\ S!VisitsTypeOK
  BY DEF MarketTypeOK
<1>1. CASE Next /\ UNCHANGED <<requests, jobs, visits>>
  <2>1. TypeOK'
    BY <1>1, <1>t, StepType
  <2>2. \A b \in BudgetIds : budgets[b].status # "NONE" => budgets'[b].status # "NONE"
    <3> SUFFICES ASSUME NEW b \in BudgetIds, budgets[b].status # "NONE"
                 PROVE  budgets'[b].status # "NONE"
      OBVIOUS
    <3>1. budgets[b] \in BudgetRow
      BY <1>t DEF TypeOK, TablesTypeOK
    <3>2. [budgets[b] EXCEPT !.status = "PAID"].status = "PAID"
      BY <3>1 DEF BudgetRow
    <3> QED
      BY <1>1, <1>t, <3>2, PaymentsSteps
  <2>3. B!RequestsTypeOK'
    BY <1>1, <1>t, <2>2, RequestCases DEF B!RequestsTypeOK, B!Answering
  <2>4. S!VisitsTypeOK'
    BY <1>1, <1>t DEF S!VisitsTypeOK
  <2> QED
    BY <2>1, <2>3, <2>4 DEF MarketTypeOK
<1>2. CASE B!RequestsNext /\ UNCHANGED <<charges, notices, handlers, jobs, visits>>
  <2>1. TypeOK' /\ B!RequestsTypeOK'
    BY <1>2, <1>t, BudgetStepType, OthersKeepIds, OthersKeepPayments
  <2> QED
    BY <1>2, <1>t, <2>1 DEF MarketTypeOK, S!VisitsTypeOK
<1>3. CASE S!VisitsNext /\ UNCHANGED <<charges, notices, handlers, requests>>
  <2>1. TypeOK' /\ S!VisitsTypeOK'
    BY <1>3, <1>t, VisitStepType, OthersKeepIds, OthersKeepPayments
  <2>2. UNCHANGED budgets
    BY <1>3, VisitCases, VisitLooksOnly
       DEF S!CreateJob, S!CreateSchedule, S!UpdateSchedule, S!DeleteSchedule, S!DeleteJob
  <2> QED
    BY <1>3, <1>t, <2>1, <2>2 DEF MarketTypeOK, B!RequestsTypeOK
<1>4. CASE UNCHANGED marketVars
  BY <1>4, <1>t
     DEF marketVars, MarketTypeOK, TypeOK, TablesTypeOK, GatewayTypeOK,
         B!RequestsTypeOK, S!VisitsTypeOK
<1> QED
  BY <1>1, <1>2, <1>3, <1>4 DEF MarketNext

\* Every variable of the composed system keeps its type, and a request that
\* answers a budget names one that exists.
THEOREM MarketTypeCorrect == MarketSpec => []MarketTypeOK
  BY MarketInitType, MarketStepType, PTL DEF MarketSpec

-----------------------------------------------------------------------------
(* What a step of the composed system does to a budget, a visit, a budget  *)
(* request and a checkout.                                                 *)

\* A step of Budgets or Schedules settles no budget, and leaves each payment
\* what it is, if not its target.
OthersStep ==
  /\ UNCHANGED <<charges, notices, handlers>>
  /\ DOMAIN payments' = DOMAIN payments
  /\ \A i \in DOMAIN payments :
       /\ payments'[i].target \in {payments[i].target, NoTarget}
       /\ payments'[i].status = payments[i].status
       /\ payments'[i].charge = payments[i].charge
       /\ payments'[i].method = payments[i].method
       /\ payments'[i].pixValid = payments[i].pixValid
  /\ \A b \in BudgetIds :
       budgets'[b].status = "PAID" => budgets[b].status = "PAID"

LEMMA WriteAnswerFacts ==
  ASSUME MarketTypeOK, NEW r \in BudgetRequests, B!WriteAnswer(r)
  PROVE  /\ requests[r].budget \in BudgetIds
         /\ requests[r].status \in B!Answer
         /\ budgets[requests[r].budget].status # "NONE"
         /\ budgets' = [budgets EXCEPT ![requests[r].budget] =
              [status |-> requests[r].status,
               schedule |-> budgets[requests[r].budget].schedule]]
<1>1. requests[r] \in B!Answering
  BY RequestCases DEF MarketTypeOK, B!WriteAnswer
<1>2. /\ requests[r].budget \in BudgetIds
      /\ requests[r].status \in B!Answer
  BY <1>1 DEF B!Answering
<1>3. budgets[requests[r].budget] \in BudgetRow
  BY <1>2 DEF MarketTypeOK, TypeOK, TablesTypeOK
<1>4. [budgets[requests[r].budget] EXCEPT !.status = requests[r].status] =
        [status |-> requests[r].status,
         schedule |-> budgets[requests[r].budget].schedule]
  BY <1>3 DEF BudgetRow
<1>5. budgets[requests[r].budget].status # "NONE"
  BY DEF MarketTypeOK, B!RequestsTypeOK, B!WriteAnswer
<1> QED
  BY <1>2, <1>4, <1>5 DEF B!WriteAnswer

LEMMA InsertBudgetFacts ==
  ASSUME MarketTypeOK, NEW r \in BudgetRequests, NEW b \in BudgetIds,
         B!InsertBudget(r, b)
  PROVE  /\ requests[r].schedule \in ScheduleIds
         /\ budgets' \in [BudgetIds -> BudgetRow]
         /\ budgets'[b] = [status |-> "SENT", schedule |-> requests[r].schedule]
         /\ \A d \in BudgetIds \ {b} : budgets'[d] = budgets[d]
<1>1. requests[r] \in B!Creating
  BY RequestCases DEF MarketTypeOK, B!InsertBudget
<1>2. budgets \in [BudgetIds -> BudgetRow]
  BY DEF MarketTypeOK, TypeOK, TablesTypeOK
<1> QED
  BY <1>1, <1>2 DEF B!InsertBudget, B!Creating, BudgetRow, BudgetStatus

LEMMA OthersSteps ==
  ASSUME MarketTypeOK,
         \/ B!RequestsNext /\ UNCHANGED <<charges, notices, handlers, jobs, visits>>
         \/ S!VisitsNext /\ UNCHANGED <<charges, notices, handlers, requests>>
  PROVE  OthersStep
<1>t. TypeOK
  BY DEF MarketTypeOK
<1>p. UNCHANGED payments =>
        /\ DOMAIN payments' = DOMAIN payments
        /\ \A i \in DOMAIN payments : payments'[i] = payments[i]
  OBVIOUS
<1>1. UNCHANGED <<charges, notices, handlers>>
  OBVIOUS
<1>2. ASSUME NEW r \in BudgetRequests, NEW b \in BudgetIds, B!InsertBudget(r, b)
      PROVE  OthersStep
  BY <1>1, <1>2, <1>p, InsertBudgetFacts DEF B!InsertBudget, OthersStep
<1>3. ASSUME NEW r \in BudgetRequests, B!WriteAnswer(r) PROVE OthersStep
  <2>1. budgets \in [BudgetIds -> BudgetRow]
    BY <1>t DEF TypeOK, TablesTypeOK
  <2>2. \A b \in BudgetIds :
          budgets'[b].status = "PAID" => budgets[b].status = "PAID"
    <3>1. PICK d, row :
            /\ row.status # "PAID"
            /\ budgets' = [budgets EXCEPT ![d] = row]
      BY <1>3, WriteAnswerFacts DEF B!Answer
    <3> QED
      BY <2>1, <3>1
  <2> QED
    BY <1>1, <1>3, <1>p, <2>2 DEF B!WriteAnswer, OthersStep
<1>4. ASSUME NEW v \in VisitRequests, S!DeleteSchedule(v) PROVE OthersStep
  <2>1. UNCHANGED budgets
    BY <1>4 DEF S!DeleteSchedule
  <2> QED
    BY <1>1, <1>t, <1>4, <2>1, DeleteFacts DEF OthersStep
<1>5. ASSUME UNCHANGED <<budgets, payments>> PROVE OthersStep
  BY <1>1, <1>5, <1>p DEF OthersStep
<1>6. CASE B!RequestsNext
  BY <1>2, <1>3, <1>5, <1>6, BudgetCases, BudgetLooksOnly
<1>7. CASE S!VisitsNext
  BY <1>4, <1>5, <1>7, VisitCases, VisitLooksOnly
     DEF S!CreateJob, S!CreateSchedule, S!UpdateSchedule, S!DeleteJob
<1> QED
  BY <1>6, <1>7

\* So everything PaymentsProofs needs of the others holds of such a step.
LEMMA OthersKeepIInv ==
  ASSUME IInv, TypeOK', OthersStep
  PROVE  IInv' /\ Grows /\ KeepsCharges
<1>1. Grows /\ KeepsCharges
  BY Unchanged DEF OthersStep, KeepsCharges
<1>2. ChargesSeen'
  BY DEF IInv, ChargesSeen, OthersStep
<1>3. NoInventedStatus'
  BY DEF IInv, NoInventedStatus, RowBacked, Reported, OthersStep
<1>4. RequestsBacked'
  <2> SUFFICES ASSUME NEW h \in Handlers PROVE RequestBacked(handlers[h])'
    BY DEF RequestsBacked
  <2>1. PICK r : r = handlers[h]
    OBVIOUS
  <2>2. RequestBacked(r)
    BY <2>1 DEF IInv, RequestsBacked
  <2>3. RequestBacked(r)'
    BY <1>1, <2>2, RequestBackedStable
  <2> QED
    BY <2>1, <2>3 DEF OthersStep, RequestBacked
<1>5. SettledOnlyIfApproved'
  BY <1>1, ApprovedStable DEF IInv, SettledOnlyIfApproved, OthersStep
<1> QED
  BY <1>1, <1>2, <1>3, <1>4, <1>5 DEF IInv

Becomes(b, status, s) == budgets'[b].status = status /\ budgets'[b].schedule = s

LEMMA BudgetSteps ==
  ASSUME MarketTypeOK, [MarketNext]_marketVars, NEW b \in BudgetIds
  PROVE  \/ budgets'[b] = budgets[b]
         \/ /\ \E h \in Handlers : handlers[h].pc = "settle" /\ handlers[h].budget = b
            /\ Becomes(b, "PAID", budgets[b].schedule)
         \/ \E r \in BudgetRequests :
              /\ requests[r].pc = "insert"
              /\ schedules[requests[r].schedule] # "DELETED"
              /\ requests'[r].pc = "idle"
              /\ budgets[b].status = "NONE"
              /\ \A earlier \in BudgetIds :
                   earlier < b => budgets[earlier].status # "NONE"
              /\ UNCHANGED schedules
              /\ Becomes(b, "SENT", requests[r].schedule)
         \/ \E r \in BudgetRequests :
              /\ requests[r].pc = "answer"
              /\ requests[r].budget = b
              /\ requests'[r].pc = "idle"
              /\ budgets[b].status # "NONE"
              /\ \E answer \in B!Answer :
                   Becomes(b, answer, budgets[b].schedule)
<1>t. TypeOK /\ budgets \in [BudgetIds -> BudgetRow] /\ budgets[b] \in BudgetRow
  BY DEF MarketTypeOK, TypeOK, TablesTypeOK
<1>i. \A r \in BudgetRequests :
        requests' = [requests EXCEPT ![r] = B!Idle] => requests'[r].pc = "idle"
  BY DEF MarketTypeOK, B!RequestsTypeOK, B!Idle
<1>1. CASE [Next]_vars
  <2>1. [budgets[b] EXCEPT !.status = "PAID"] =
          [status |-> "PAID", schedule |-> budgets[b].schedule]
    BY <1>t DEF BudgetRow
  <2> QED
    BY <1>1, <1>t, <2>1, PaymentsSteps DEF Becomes
<1>2. ASSUME NEW r \in BudgetRequests, NEW d \in BudgetIds, B!InsertBudget(r, d)
      PROVE  \/ budgets'[b] = budgets[b]
             \/ /\ requests[r].pc = "insert"
                /\ schedules[requests[r].schedule] # "DELETED"
                /\ requests'[r].pc = "idle"
                /\ budgets[b].status = "NONE"
                /\ \A earlier \in BudgetIds :
                     earlier < b => budgets[earlier].status # "NONE"
                /\ UNCHANGED schedules
                /\ Becomes(b, "SENT", requests[r].schedule)
  <2>1. requests'[r].pc = "idle"
    BY <1>2, <1>i DEF B!InsertBudget
  <2>2. CASE d = b
    BY <1>2, <2>1, <2>2, InsertBudgetFacts DEF B!InsertBudget, B!IsNextId, Becomes
  <2>3. CASE d # b
    BY <1>2, <2>3, InsertBudgetFacts
  <2> QED
    BY <2>2, <2>3
<1>3. ASSUME NEW r \in BudgetRequests, B!WriteAnswer(r)
      PROVE  \/ budgets'[b] = budgets[b]
             \/ /\ requests[r].pc = "answer"
                /\ requests[r].budget = b
                /\ requests'[r].pc = "idle"
                /\ budgets[b].status # "NONE"
                /\ \E answer \in B!Answer :
                     Becomes(b, answer, budgets[b].schedule)
  <2>1. PICK d, answer : d = requests[r].budget /\ answer = requests[r].status
    OBVIOUS
  <2>2. /\ answer \in B!Answer
        /\ budgets[d].status # "NONE"
        /\ budgets' =
             [budgets EXCEPT ![d] = [status |-> answer, schedule |-> budgets[d].schedule]]
    BY <1>3, <2>1, WriteAnswerFacts
  <2>3. requests[r].pc = "answer" /\ requests'[r].pc = "idle"
    BY <1>3, <1>i DEF B!WriteAnswer
  <2>4. CASE d = b
    BY <1>t, <2>1, <2>2, <2>3, <2>4 DEF Becomes
  <2>5. CASE d # b
    BY <1>t, <2>2, <2>5
  <2> QED
    BY <2>4, <2>5
<1>4. CASE B!RequestsNext
  BY <1>2, <1>3, <1>4, BudgetCases, BudgetLooksOnly
<1>5. CASE S!VisitsNext
  <2>1. UNCHANGED budgets
    BY <1>5, VisitCases, VisitLooksOnly
       DEF S!CreateJob, S!CreateSchedule, S!UpdateSchedule, S!DeleteSchedule, S!DeleteJob
  <2> QED
    BY <2>1
<1>6. CASE UNCHANGED marketVars
  BY <1>6 DEF marketVars
<1> QED
  BY <1>1, <1>4, <1>5, <1>6 DEF MarketNext

LEMMA RequestSteps ==
  ASSUME MarketTypeOK, [MarketNext]_marketVars, NEW q \in BudgetRequests
  PROVE  \/ requests'[q] = requests[q]
         \/ requests'[q].pc = "idle"
         \/ /\ UNCHANGED <<schedules, budgets, payments, charges, handlers>>
            /\ \/ /\ requests'[q].pc = "checkVisit"
                  /\ schedules[requests'[q].schedule] = "ACCEPTED"
               \/ /\ requests[q].pc = "checkVisit"
                  /\ requests'[q].pc = "checkActive"
                  /\ requests'[q].schedule = requests[q].schedule
                  /\ HasPaidRow(requests[q].schedule)
               \/ /\ requests[q].pc = "checkActive"
                  /\ requests'[q].pc = "insert"
                  /\ requests'[q].schedule = requests[q].schedule
                  /\ \A b \in BudgetIds : ~B!IsActive(b, requests[q].schedule)
               \/ /\ requests'[q].pc = "answer"
                  /\ budgets[requests'[q].budget].status = "SENT"
<1>t. requests \in [BudgetRequests -> {B!Idle} \cup B!Creating \cup B!Answering]
  BY DEF MarketTypeOK, B!RequestsTypeOK
<1>i. B!Idle.pc = "idle"
  BY DEF B!Idle
<1>1. CASE UNCHANGED requests
  BY <1>1
<1>2. CASE B!RequestsNext /\ UNCHANGED <<charges, notices, handlers, jobs, visits>>
  <2>u. UNCHANGED charges /\ UNCHANGED handlers
    BY <1>2
  <2>1. ASSUME NEW r \in BudgetRequests, NEW s \in ScheduleIds, NEW u \in Users,
               B!ReadSchedule(r, s, u)
        PROVE  \/ requests'[q] = requests[q]
               \/ /\ UNCHANGED <<schedules, budgets, payments>>
                  /\ requests'[q].pc = "checkVisit"
                  /\ schedules[requests'[q].schedule] = "ACCEPTED"
    BY <1>t, <2>1 DEF B!ReadSchedule
  <2>2. ASSUME NEW r \in BudgetRequests, B!CheckVisitFee(r)
        PROVE  \/ requests'[q] = requests[q] \/ requests'[q].pc = "idle"
               \/ /\ UNCHANGED <<schedules, budgets, payments>>
                  /\ requests[q].pc = "checkVisit"
                  /\ requests'[q].pc = "checkActive"
                  /\ requests'[q].schedule = requests[q].schedule
                  /\ HasPaidRow(requests[q].schedule)
    <3>1. B!HasPaidRow(requests[r].schedule) => HasPaidRow(requests[r].schedule)
      BY DEF HasPaidRow, B!HasPaidRow
    <3> QED
      BY <1>t, <1>i, <2>2, <3>1 DEF B!CheckVisitFee
  <2>3. ASSUME NEW r \in BudgetRequests, B!CheckActiveBudget(r)
        PROVE  \/ requests'[q] = requests[q] \/ requests'[q].pc = "idle"
               \/ /\ UNCHANGED <<schedules, budgets, payments>>
                  /\ requests[q].pc = "checkActive"
                  /\ requests'[q].pc = "insert"
                  /\ requests'[q].schedule = requests[q].schedule
                  /\ \A b \in BudgetIds : ~B!IsActive(b, requests[q].schedule)
    BY <1>t, <1>i, <2>3 DEF B!CheckActiveBudget
  <2>4. ASSUME NEW r \in BudgetRequests, NEW b \in BudgetIds, NEW u \in Users,
               NEW status \in B!Answer, B!ReadBudget(r, b, u, status)
        PROVE  \/ requests'[q] = requests[q]
               \/ /\ UNCHANGED <<schedules, budgets, payments>>
                  /\ requests'[q].pc = "answer"
                  /\ budgets[requests'[q].budget].status = "SENT"
    BY <1>t, <2>4 DEF B!ReadBudget
  <2>5. ASSUME NEW r \in BudgetRequests,
               \/ \E b \in BudgetIds : B!InsertBudget(r, b)
               \/ B!WriteAnswer(r)
               \/ B!GiveUp(r)
        PROVE  requests'[q] = requests[q] \/ requests'[q].pc = "idle"
    BY <1>t, <1>i, <2>5 DEF B!InsertBudget, B!WriteAnswer, B!GiveUp
  <2> QED
    BY <1>2, <2>u, <2>1, <2>2, <2>3, <2>4, <2>5 DEF B!RequestsNext
<1> QED
  BY <1>1, <1>2 DEF MarketNext, marketVars

\* A visit is requested for a job on offer, goes where an update takes it, or
\* is deleted when no budget refers to it.
LEMMA ScheduleSteps ==
  ASSUME MarketTypeOK, [MarketNext]_marketVars, NEW s \in ScheduleIds
  PROVE  \/ schedules'[s] = schedules[s]
         \/ S!Exists(s) /\ schedules'[s] \in ScheduleStatus
         \/ /\ schedules[s] = "NONE"
            /\ schedules'[s] \in ScheduleStatus
            /\ jobs[JobOf[s]] = "LIVE"
            /\ UNCHANGED <<jobs, budgets, requests>>
         \/ /\ schedules'[s] = "DELETED"
            /\ UNCHANGED <<jobs, budgets, requests>>
            /\ \A b \in BudgetIds :
                 budgets[b].status # "NONE" => budgets[b].schedule # s
<1>t. /\ TypeOK /\ S!VisitsTypeOK
      /\ schedules \in [ScheduleIds -> ScheduleStatus \cup {"NONE", "DELETED"}]
  BY DEF MarketTypeOK, TypeOK, TablesTypeOK
<1>1. CASE [Next]_vars
  BY <1>1, <1>t, PaymentsSteps
<1>2. CASE B!RequestsNext
  BY <1>2, BudgetCases, BudgetLooksOnly DEF B!InsertBudget, B!WriteAnswer
<1>3. CASE S!VisitsNext /\ UNCHANGED <<charges, notices, handlers, requests>>
  <2>1. ASSUME NEW z \in ScheduleIds, S!CreateSchedule(z)
        PROVE  \/ schedules'[s] = schedules[s]
               \/ /\ schedules[s] = "NONE"
                  /\ schedules'[s] \in ScheduleStatus
                  /\ jobs[JobOf[s]] = "LIVE"
                  /\ UNCHANGED <<jobs, budgets>>
    BY <1>t, <2>1 DEF S!CreateSchedule, ScheduleStatus
  <2>2. ASSUME NEW v \in VisitRequests, S!UpdateSchedule(v)
        PROVE  \/ schedules'[s] = schedules[s]
               \/ S!Exists(s) /\ schedules'[s] \in ScheduleStatus
    <3>1. visits[v] \in S!Updating
      BY <1>t, <2>2, VisitRequestCases DEF S!UpdateSchedule
    <3> QED
      BY <1>t, <2>2, <3>1
         DEF S!UpdateSchedule, S!Updating, S!ScheduleStatus, ScheduleStatus
  <2>3. ASSUME NEW v \in VisitRequests, S!DeleteSchedule(v)
        PROVE  \/ schedules'[s] = schedules[s]
               \/ /\ schedules'[s] = "DELETED"
                  /\ UNCHANGED <<jobs, budgets>>
                  /\ \A b \in BudgetIds :
                       budgets[b].status # "NONE" => budgets[b].schedule # s
    BY <1>t, <2>3 DEF S!DeleteSchedule
  <2> QED
    BY <1>3, <2>1, <2>2, <2>3, VisitCases, VisitLooksOnly DEF S!CreateJob, S!DeleteJob
<1>4. CASE UNCHANGED marketVars
  BY <1>4 DEF marketVars
<1> QED
  BY <1>1, <1>2, <1>3, <1>4 DEF MarketNext

\* A checkout is begun for an ACCEPTED budget or visit, or goes on.
CheckoutPcs == {"checkPaid", "findPix", "postPix", "postCard"}

LEMMA CheckoutSteps ==
  ASSUME TypeOK, [Next]_vars, NEW g \in Handlers, handlers'[g].pc \in CheckoutPcs
  PROVE  \/ handlers'[g] = handlers[g]
         \/ /\ UNCHANGED <<tables, charges>>
            /\ handlers[g].pc \in CheckoutPcs
            /\ handlers'[g].target = handlers[g].target
         \/ /\ UNCHANGED <<tables, charges>>
            /\ handlers'[g].pc = "checkPaid"
            /\ \/ handlers'[g].target \in BudgetIds
                  /\ budgets[handlers'[g].target].status = "ACCEPTED"
               \/ handlers'[g].target \in ScheduleIds
<1>t. handlers \in [Handlers -> Handler]
  BY DEF TypeOK
<1>1. ASSUME NEW h \in Handlers, StartsCheckout(h)
      PROVE  \/ handlers'[g] = handlers[g]
             \/ /\ UNCHANGED <<tables, charges>>
                /\ handlers'[g].pc = "checkPaid"
                /\ \/ handlers'[g].target \in BudgetIds
                      /\ budgets[handlers'[g].target].status = "ACCEPTED"
                   \/ handlers'[g].target \in ScheduleIds
  BY <1>1, <1>t DEF StartsCheckout, CreateCheckout, CreateVisitCheckout
<1>2. ASSUME NEW h \in Handlers, AssertNotAlreadyPaid(h) \/ FindReusablePix(h)
      PROVE  \/ handlers'[g] = handlers[g]
             \/ /\ UNCHANGED <<tables, charges>>
                /\ handlers[g].pc \in CheckoutPcs
                /\ handlers'[g].target = handlers[g].target
  <2>1. handlers[h] \in Checkout /\ Idle.pc \notin CheckoutPcs
    BY <1>2, HandlerCases DEF AssertNotAlreadyPaid, FindReusablePix, Idle, CheckoutPcs
  <2>2. CASE g = h
    BY <1>2, <1>t, <2>1, <2>2
       DEF AssertNotAlreadyPaid, FindReusablePix, Checkout, CheckoutPcs
  <2>3. CASE g # h
    BY <1>2, <1>t, <2>3 DEF AssertNotAlreadyPaid, FindReusablePix
  <2> QED
    BY <2>2, <2>3
<1>3. ASSUME NEW h \in Handlers,
             \/ CreatePixCharge(h) \/ ChargeCard(h) \/ CardDeclined(h)
             \/ InsertPayment(h) \/ UpdatePayment(h) \/ Reads(h) \/ GatewayAnswers(h)
             \/ MarkBudgetPaid(h) \/ GatewayFails(h) \/ Abort(h)
      PROVE  handlers'[g] = handlers[g]
  <2>1. handlers'[h].pc \notin CheckoutPcs
    BY <1>3, NextPc DEF CheckoutPcs
  <2>2. g # h
    BY <2>1
  <2> QED
    BY <1>3, <1>t, <2>2
       DEF CreatePixCharge, ChargeCard, CardDeclined, InsertPayment, UpdatePayment,
           Reads, FindById, HandleWebhook, GatewayAnswers, MarkBudgetPaid, GatewayFails,
           Abort, CutOff
<1>4. ASSUME UNCHANGED handlers PROVE handlers'[g] = handlers[g]
  BY <1>4
<1> QED
  BY <1>1, <1>2, <1>3, <1>4, NextCases DEF PixExpires, Advances

-----------------------------------------------------------------------------
(* The safety of Payments, kept by the other components' steps.            *)

\* What the following theorems rest on.
MarketIInv == IInv /\ MarketTypeOK

LEMMA MarketInitIInv == MarketInit => MarketIInv
<1> SUFFICES ASSUME MarketInit PROVE MarketIInv
  OBVIOUS
<1>1. MarketTypeOK /\ TypeOK
  BY MarketInitType DEF MarketTypeOK
<1>2. ChargesSeen /\ NoInventedStatus
  BY DEF MarketInit, ChargesSeen, NoInventedStatus
<1>3. RequestsBacked
  BY DEF MarketInit, RequestsBacked, RequestBacked, Idle
<1>4. SettledOnlyIfApproved
  BY DEF MarketInit, SettledOnlyIfApproved
<1> QED
  BY <1>1, <1>2, <1>3, <1>4 DEF IInv, MarketIInv

\* A step is one of Payments, one of the others, or nothing that matters here.
LEMMA MarketCases ==
  ASSUME MarketTypeOK, [MarketNext]_marketVars
  PROVE  [Next]_vars \/ OthersStep
  BY OthersSteps DEF MarketNext, marketVars, vars, tables

LEMMA MarketStepIInv == MarketIInv /\ [MarketNext]_marketVars => MarketIInv'
<1> SUFFICES ASSUME MarketIInv, [MarketNext]_marketVars PROVE MarketIInv'
  OBVIOUS
<1>1. MarketTypeOK' /\ TypeOK'
  BY MarketStepType DEF MarketIInv, MarketTypeOK
<1> QED
  BY <1>1, MarketCases, StepIInv, OthersKeepIInv DEF MarketIInv

\* Charges and what is known of them are only added to.
LEMMA MarketGrows ==
  ASSUME MarketIInv, [MarketNext]_marketVars
  PROVE  Grows
  BY MarketCases, MoneySteps, Unchanged DEF MarketIInv, OthersStep, MarkBudgetPaid

\* Whatever visits are updated or deleted and budgets answered in between, a
\* payment shows what the provider said of its charge, and no other.
THEOREM MarketNothingInvented == MarketSpec => []NoInventedStatus
<1>1. MarketIInv => NoInventedStatus
  BY DEF MarketIInv, IInv
<1> QED
  BY <1>1, MarketInitIInv, MarketStepIInv, PTL DEF MarketSpec

\* Whatever was written to a budget since its payment was read, it is PAID only
\* if the provider approved a charge made for it.
THEOREM MarketSettledCorrect == MarketSpec => []SettledOnlyIfApproved
<1>1. MarketIInv => SettledOnlyIfApproved
  BY DEF MarketIInv, IInv
<1> QED
  BY <1>1, MarketInitIInv, MarketStepIInv, PTL DEF MarketSpec

\* With no request cut off between the POST and payment.create, every charge is
\* tracked until its visit is deleted, though deletions overlap the checkouts.
THEOREM MarketTrackedCorrect ==
  ASSUME "insert" \notin CrashPoints
  PROVE  MarketSpec => []ChargeIsTracked
<1>1. MarketInit => ChargeIsTracked
  BY DEF MarketInit, ChargeIsTracked
<1>2. MarketIInv /\ ChargeIsTracked /\ [MarketNext]_marketVars => ChargeIsTracked'
  <2> SUFFICES ASSUME MarketIInv, ChargeIsTracked, [MarketNext]_marketVars
               PROVE  ChargeIsTracked'
    OBVIOUS
  <2>1. CASE [Next]_vars
    BY <2>1, StepTracked DEF MarketIInv
  <2>2. CASE OthersStep
    <3>1. MarketTypeOK
      BY DEF MarketIInv
    <3>2. \A s \in ScheduleIds : schedules[s] = "DELETED" => schedules'[s] = "DELETED"
      BY <3>1, ScheduleSteps DEF S!Exists, S!ScheduleStatus
    <3> QED
      BY <2>2, <3>2 DEF OthersStep, ChargeIsTracked, TargetExists
  <2> QED
    BY <2>1, <2>2, MarketCases DEF MarketIInv
<1> QED
  BY <1>1, <1>2, MarketInitIInv, MarketStepIInv, PTL DEF MarketSpec

\* Budgets and schedules make no charge and insert no payment.
LEMMA OthersDistinct ==
  ASSUME Distinct, OthersStep
  PROVE  Distinct'
  BY DEF Distinct, OneRowPerCharge, FreshInserts, OthersStep

\* handleWebhook finds one payment at most, though deleting a visit leaves its
\* payments in the table with their charges.
THEOREM MarketOneRowPerCharge == MarketSpec => []OneRowPerCharge
<1>1. MarketInit => Distinct
  BY DEF MarketInit, Distinct, OneRowPerCharge, FreshInserts, Idle
<1>2. MarketIInv /\ Distinct /\ [MarketNext]_marketVars => Distinct'
  BY MarketCases, StepDistinct, OthersDistinct DEF MarketIInv
<1>3. Distinct => OneRowPerCharge
  BY DEF Distinct
<1> QED
  BY <1>1, <1>2, <1>3, MarketInitIInv, MarketStepIInv, PTL DEF MarketSpec

-----------------------------------------------------------------------------
(* Money is asked for answered budgets.                                    *)

\* Every budget that is charged, or about to be, is one of G.
MoneyFor(G) ==
  /\ \A c \in DOMAIN charges :
       charges[c].target \in BudgetIds => charges[c].target \in G
  /\ \A h \in Handlers :
       handlers[h].pc \in CheckoutPcs /\ handlers[h].target \in BudgetIds =>
         handlers[h].target \in G

\* A step asks for money for such a budget again, or for an ACCEPTED one.
LEMMA MoneyForSteps ==
  ASSUME MarketIInv, [MarketNext]_marketVars, NEW G, MoneyFor(G),
         \A b \in BudgetIds : budgets[b].status = "ACCEPTED" => b \in G
  PROVE  MoneyFor(G)'
<1>t. TypeOK /\ MarketTypeOK /\ Grows
  BY MarketGrows DEF MarketIInv, IInv
<1>1. ASSUME NEW h \in Handlers, handlers'[h].pc \in CheckoutPcs,
             NEW b \in BudgetIds, handlers'[h].target = b
      PROVE  b \in G
  <2>1. handlers[h].target = b /\ handlers[h].pc \in CheckoutPcs => b \in G
    BY DEF MoneyFor
  <2>2. CASE [Next]_vars
    <3>1. b \notin ScheduleIds
      BY SchemaAssumption
    <3> QED
      BY <1>1, <1>t, <2>1, <2>2, <3>1, CheckoutSteps
  <2>3. CASE OthersStep
    BY <1>1, <2>1, <2>3 DEF OthersStep
  <2> QED
    BY <1>t, <2>2, <2>3, MarketCases
<1>2. ASSUME NEW c \in DOMAIN charges', charges'[c].target \in BudgetIds
      PROVE  charges'[c].target \in G
  <2>1. CASE c \in DOMAIN charges
    BY <1>2, <1>t, <2>1 DEF Grows, MoneyFor
  <2>2. CASE c \notin DOMAIN charges
    <3>1. [Next]_vars
      BY <1>t, <1>2, <2>2, MarketCases DEF OthersStep
    <3>2. PICK h \in Handlers :
            /\ handlers[h].pc \in CheckoutPcs
            /\ charges'[c].target = handlers[h].target
      BY <1>t, <1>2, <2>2, <3>1, ChargeSteps DEF CheckoutPcs
    <3> QED
      BY <1>2, <3>2 DEF MoneyFor
  <2> QED
    BY <2>1, <2>2
<1> QED
  BY <1>1, <1>2 DEF MoneyFor

LEMMA InitMoneyFor == ASSUME MarketInit, NEW G PROVE MoneyFor(G)
  BY DEF MarketInit, MoneyFor, Idle, CheckoutPcs

\* A budget about to be settled has been charged.
LEMMA SettlingCharged ==
  ASSUME IInv, NEW G, MoneyFor(G), NEW h \in Handlers, handlers[h].pc = "settle"
  PROVE  handlers[h].budget \in BudgetIds \cap G
<1>1. handlers[h].budget \in BudgetIds
  BY HandlerCases DEF IInv, Settling
<1>2. Approved(handlers[h].budget)
  BY DEF IInv, RequestsBacked, RequestBacked
<1> QED
  BY <1>1, <1>2 DEF Approved, MoneyFor

AnsweredBudgets ==
  {b \in BudgetIds : budgets[b].status \in {"ACCEPTED", "REJECTED", "PAID"}}

\* A checkout of a budget, too, has it answered, whatever became of the answer
\* since it was read.
AnsweredFirst == MoneyFor(AnsweredBudgets)

LEMMA AnsweredStable ==
  ASSUME MarketTypeOK, [MarketNext]_marketVars, NEW b \in AnsweredBudgets
  PROVE  b \in AnsweredBudgets'
<1>1. CASE \E answer \in B!Answer : budgets'[b].status = answer
  BY <1>1 DEF AnsweredBudgets, B!Answer
<1>2. CASE budgets'[b].status = "PAID" \/ budgets'[b] = budgets[b]
  BY <1>2 DEF AnsweredBudgets
<1>3. b \in BudgetIds /\ budgets[b].status # "NONE"
  BY DEF AnsweredBudgets
<1> QED
  BY <1>1, <1>2, <1>3, BudgetSteps DEF Becomes

LEMMA InitAnswered == MarketInit => AnsweredFirst
  BY InitMoneyFor DEF AnsweredFirst

LEMMA StepAnswered ==
  MarketIInv /\ AnsweredFirst /\ [MarketNext]_marketVars => AnsweredFirst'
<1> SUFFICES ASSUME MarketIInv, AnsweredFirst, [MarketNext]_marketVars
             PROVE  AnsweredFirst'
  OBVIOUS
<1>1. PICK G : G = AnsweredBudgets
  OBVIOUS
<1>2. MoneyFor(G)'
  BY <1>1, MoneyForSteps DEF AnsweredFirst, AnsweredBudgets
<1>3. G \subseteq AnsweredBudgets'
  BY <1>1, AnsweredStable DEF MarketIInv
<1> QED
  BY <1>2, <1>3 DEF AnsweredFirst, MoneyFor

\* Money is asked for a budget only after its client answered it, and no
\* overlapping request makes a charged budget unanswered again.
THEOREM ChargedOnlyIfAnsweredCorrect == MarketSpec => []ChargedOnlyIfAnswered
<1>1. AnsweredFirst => ChargedOnlyIfAnswered
  BY DEF AnsweredFirst, MoneyFor, AnsweredBudgets, ChargedOnlyIfAnswered
<1> QED
  BY <1>1, MarketInitIInv, MarketStepIInv, InitAnswered, StepAnswered, PTL DEF MarketSpec

-----------------------------------------------------------------------------
(* No budget without its visit's money.                                    *)

\* A budget request past the look for the fee has it approved.
FeeCollected ==
  /\ VisitFeeFirst
  /\ \A r \in BudgetRequests :
       requests[r].pc \in {"checkActive", "insert"} => Approved(requests[r].schedule)

\* What a PAID row says, the provider has said.
LEMMA PaidRowApproved ==
  ASSUME IInv, NEW target \in Targets, HasPaidRow(target)
  PROVE  Approved(target)
<1>1. PICK i \in DOMAIN payments :
        payments[i].target = target /\ payments[i].status = "PAID"
  BY DEF HasPaidRow
<1>2. RowBacked(payments[i])
  BY DEF IInv, NoInventedStatus
<1>3. target # NoTarget
  BY SchemaAssumption DEF Targets
<1>4. /\ payments[i].charge \in DOMAIN charges
      /\ charges[payments[i].charge].target = target
      /\ "PAID" \in Reported(payments[i].charge)
  BY <1>1, <1>2, <1>3 DEF RowBacked
<1> QED
  BY <1>4, PaidIsApproved DEF IInv

LEMMA InitFee == MarketInit => FeeCollected
<1> SUFFICES ASSUME MarketInit PROVE FeeCollected
  OBVIOUS
<1>1. \A b \in BudgetIds : budgets[b].status = "NONE"
  BY DEF MarketInit
<1> QED
  BY <1>1 DEF MarketInit, B!RequestsInit, B!Idle, FeeCollected, VisitFeeFirst

LEMMA StepFee ==
  MarketIInv /\ AnsweredFirst /\ FeeCollected /\ [MarketNext]_marketVars => FeeCollected'
<1> SUFFICES ASSUME MarketIInv, AnsweredFirst, FeeCollected, [MarketNext]_marketVars
             PROVE  FeeCollected'
  OBVIOUS
<1>t. MarketTypeOK /\ IInv /\ budgets \in [BudgetIds -> BudgetRow]
  BY DEF MarketIInv, IInv, TypeOK, TablesTypeOK
<1>g. \A target : Approved(target) => Approved(target)'
  BY MarketGrows, ApprovedStable
<1>1. ASSUME NEW b \in BudgetIds, budgets'[b].status # "NONE",
             NEW s, budgets'[b].schedule = s
      PROVE  Approved(s)'
  <2>1. CASE budgets[b].status # "NONE" /\ budgets[b].schedule = s
    BY <1>g, <2>1 DEF FeeCollected, VisitFeeFirst
  <2>2. CASE \E r \in BudgetRequests :
               requests[r].pc = "insert" /\ requests[r].schedule = s
    BY <1>g, <2>2 DEF FeeCollected
  <2>3. ASSUME NEW h \in Handlers, handlers[h].pc = "settle", handlers[h].budget = b
        PROVE  budgets[b].status # "NONE"
    BY <1>t, <2>3, SettlingCharged DEF AnsweredFirst, AnsweredBudgets
  <2> QED
    BY <1>1, <1>t, <2>1, <2>2, <2>3, BudgetSteps DEF Becomes
<1>2. ASSUME NEW r \in BudgetRequests, requests'[r].pc \in {"checkActive", "insert"},
             NEW s, requests'[r].schedule = s
      PROVE  Approved(s)'
  <2>1. CASE requests[r].schedule = s /\ requests[r].pc \in {"checkActive", "insert"}
    BY <1>g, <2>1 DEF FeeCollected
  <2>2. CASE /\ requests[r].schedule = s
             /\ requests[r].pc = "checkVisit"
             /\ HasPaidRow(s)
    <3>1. s \in Targets
      BY <1>t, <2>2, RequestCases DEF MarketTypeOK, B!Creating, Targets
    <3> QED
      BY <1>t, <1>g, <2>2, <3>1, PaidRowApproved
  <2> QED
    BY <1>2, <1>t, <2>1, <2>2, RequestSteps
<1>3. VisitFeeFirst'
  BY <1>1 DEF VisitFeeFirst, Approved
<1>4. \A r \in BudgetRequests :
        requests'[r].pc \in {"checkActive", "insert"} => Approved(requests[r].schedule)'
  BY <1>2 DEF Approved
<1> QED
  BY <1>3, <1>4 DEF FeeCollected

\* The provider has approved a charge made for the visit of every budget, though
\* payments are updated and visits deleted while a budget request is under way.
THEOREM VisitFeeFirstCorrect == MarketSpec => []VisitFeeFirst
<1>1. FeeCollected => VisitFeeFirst
  BY DEF FeeCollected
<1> QED
  BY <1>1, MarketInitIInv, MarketStepIInv, InitAnswered, StepAnswered, InitFee, StepFee,
     PTL DEF MarketSpec

-----------------------------------------------------------------------------
(* No row without its parent.                                              *)

\* A budget request's visit has been there, if it is not any more.
HasParents ==
  /\ NoOrphans
  /\ \A r \in BudgetRequests :
       requests[r].pc \in {"checkVisit", "checkActive", "insert"} =>
         schedules[requests[r].schedule] # "NONE"

LEMMA InitParents == MarketInit => HasParents
<1> SUFFICES ASSUME MarketInit PROVE HasParents
  OBVIOUS
<1>1. /\ \A b \in BudgetIds : budgets[b].status = "NONE"
      /\ \A s \in ScheduleIds : schedules[s] = "NONE"
  BY DEF MarketInit, S!VisitsInit
<1> QED
  BY <1>1 DEF MarketInit, B!RequestsInit, B!Idle, HasParents, NoOrphans, S!Exists,
              S!ScheduleStatus

\* A job is offered, and withdrawn when no visit refers to it.
LEMMA JobSteps ==
  ASSUME MarketTypeOK, [MarketNext]_marketVars, NEW j \in JobIds, jobs[j] = "LIVE"
  PROVE  \/ jobs'[j] = "LIVE"
         \/ /\ UNCHANGED schedules
            /\ \A s \in ScheduleIds : S!Exists(s) => JobOf[s] # j
<1>t. jobs \in [JobIds -> {"NONE", "LIVE", "DELETED"}]
  BY DEF MarketTypeOK, S!VisitsTypeOK
<1>1. CASE UNCHANGED jobs
  BY <1>1
<1>2. CASE S!VisitsNext
  BY <1>2, <1>t, VisitCases, VisitLooksOnly
     DEF S!CreateJob, S!CreateSchedule, S!UpdateSchedule, S!DeleteSchedule, S!DeleteJob
<1> QED
  BY <1>1, <1>2 DEF MarketNext, marketVars

LEMMA StepParents ==
  MarketIInv /\ AnsweredFirst /\ HasParents /\ [MarketNext]_marketVars => HasParents'
<1> SUFFICES ASSUME MarketIInv, AnsweredFirst, HasParents, [MarketNext]_marketVars
             PROVE  HasParents'
  OBVIOUS
<1>t. /\ MarketTypeOK /\ IInv
      /\ budgets \in [BudgetIds -> BudgetRow]
      /\ schedules \in [ScheduleIds -> ScheduleStatus \cup {"NONE", "DELETED"}]
  BY DEF MarketIInv, IInv, TypeOK, TablesTypeOK
<1>e. S!ScheduleStatus = ScheduleStatus
  BY DEF S!ScheduleStatus, ScheduleStatus
<1>1. ASSUME NEW b \in BudgetIds, budgets'[b].status # "NONE",
             NEW s, budgets'[b].schedule = s
      PROVE  S!Exists(s)'
  <2>1. ASSUME budgets[b].status # "NONE", budgets[b].schedule = s
        PROVE  S!Exists(s)'
    <3>1. s \in ScheduleIds /\ S!Exists(s)
      BY <1>t, <2>1 DEF BudgetRow, HasParents, NoOrphans
    <3>2. schedules'[s] # "DELETED"
      BY <1>t, <1>1, <2>1, <3>1, <1>e, ScheduleSteps DEF S!Exists, ScheduleStatus
    <3> QED
      BY <1>t, <1>e, <3>1, <3>2, ScheduleSteps DEF S!Exists
  <2>2. ASSUME NEW r \in BudgetRequests, requests[r].pc = "insert", UNCHANGED schedules,
               schedules[s] # "DELETED", requests[r].schedule = s
        PROVE  S!Exists(s)'
    <3>1. s \in ScheduleIds
      BY <1>t, <2>2, RequestCases DEF MarketTypeOK, B!Creating
    <3> QED
      BY <1>t, <1>e, <2>2, <3>1 DEF HasParents, S!Exists
  <2>3. ASSUME NEW h \in Handlers, handlers[h].pc = "settle", handlers[h].budget = b
        PROVE  budgets[b].status # "NONE"
    BY <1>t, <2>3, SettlingCharged DEF AnsweredFirst, AnsweredBudgets
  <2> QED
    BY <1>1, <1>t, <2>1, <2>2, <2>3, BudgetSteps DEF Becomes
<1>2. ASSUME NEW s \in ScheduleIds, S!Exists(s)' PROVE jobs'[JobOf[s]] = "LIVE"
  <2>1. JobOf[s] \in JobIds
    BY MarketplaceAssumption
  <2>2. \/ S!Exists(s)
        \/ jobs[JobOf[s]] = "LIVE" /\ UNCHANGED jobs
    BY <1>t, <1>e, <1>2, ScheduleSteps DEF S!Exists, ScheduleStatus
  <2>3. CASE S!Exists(s)
    BY <1>t, <1>2, <2>1, <2>3, JobSteps DEF HasParents, NoOrphans
  <2> QED
    BY <2>2, <2>3
<1>3. ASSUME NEW r \in BudgetRequests,
             requests'[r].pc \in {"checkVisit", "checkActive", "insert"}
      PROVE  schedules'[requests'[r].schedule] # "NONE"
  <2>1. \A s \in ScheduleIds : schedules[s] # "NONE" => schedules'[s] # "NONE"
    BY <1>t, ScheduleSteps DEF ScheduleStatus
  <2>2. CASE /\ requests'[r].schedule = requests[r].schedule
             /\ requests[r].pc \in {"checkVisit", "checkActive", "insert"}
    <3>1. requests[r].schedule \in ScheduleIds
      BY <1>t, <2>2, RequestCases DEF MarketTypeOK, B!Creating
    <3> QED
      BY <2>1, <2>2, <3>1 DEF HasParents
  <2>3. CASE UNCHANGED schedules /\ schedules[requests'[r].schedule] = "ACCEPTED"
    BY <2>3
  <2> QED
    BY <1>3, <1>t, <2>2, <2>3, RequestSteps
<1>4. \A b \in BudgetIds :
        budgets'[b].status # "NONE" => S!Exists(budgets[b].schedule)'
  BY <1>1 DEF S!Exists
<1> QED
  BY <1>2, <1>3, <1>4 DEF HasParents, NoOrphans

\* No budget is left without its visit, nor a visit without its job, though
\* requests look the parent up in one query and write in another.
THEOREM NoOrphansCorrect == MarketSpec => []NoOrphans
<1>1. HasParents => NoOrphans
  BY DEF HasParents
<1> QED
  BY <1>1, MarketInitIInv, MarketStepIInv, InitAnswered, StepAnswered, InitParents,
     StepParents, PTL DEF MarketSpec
=============================================================================
