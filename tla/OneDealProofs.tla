--------------------------- MODULE OneDealProofs ---------------------------
(***************************************************************************)
(* Theorems about Marketplace when the requests of one component do not    *)
(* overlap: one budget request at a time, or one payment request, cut off  *)
(* anywhere and interleaved with those of the other components.  With two  *)
(* budget requests the promises about budgets fail: see the run            *)
(* MarketplaceTwoBudgets.                                                  *)
(***************************************************************************)
EXTENDS MarketplaceProofs

OneBudgetRequest == \A q, r \in BudgetRequests : q = r

WantedBudgets == {b \in BudgetIds : budgets[b].status \in {"ACCEPTED", "PAID"}}

\* The statuses the code writes.
StatusesWritten ==
  \A b \in BudgetIds :
    budgets[b].status \in {"NONE", "SENT", "ACCEPTED", "REJECTED", "PAID"}

\* What respond and create found out still holds when they write.
ChecksHold ==
  \A r \in BudgetRequests :
    /\ requests[r].pc = "answer" => budgets[requests[r].budget].status = "SENT"
    /\ requests[r].pc = "insert" =>
         \A b \in BudgetIds : ~B!IsActive(b, requests[r].schedule)

\* Ids are issued in order, so that a visit with budgets has a latest one.
IdsInOrder ==
  \A b, earlier \in BudgetIds :
    earlier < b /\ budgets[b].status # "NONE" => budgets[earlier].status # "NONE"

LatestExists ==
  \A s \in ScheduleIds : B!BudgetsOf(s) # {} => \E b \in BudgetIds : B!IsShown(b, s)

\* What makes the promises about budgets inductive.
DealInv ==
  /\ StatusesWritten
  /\ ChecksHold
  /\ MoneyFor(WantedBudgets)
  /\ IdsInOrder
  /\ LatestExists
  /\ OneActiveBudget
  /\ ShownIsActive

-----------------------------------------------------------------------------
(* What a step does to the budgets, the checks still being good.           *)

LEMMA IsActiveIsStatus ==
  \A b \in BudgetIds : B!IsActive(b, budgets[b].schedule) <=>
                         budgets[b].status \in B!ActiveStatus
  BY DEF B!IsActive

LEMMA DealBudgetSteps ==
  ASSUME MarketIInv, ChecksHold, MoneyFor(WantedBudgets), [MarketNext]_marketVars,
         NEW b \in BudgetIds
  PROVE  \/ budgets'[b] = budgets[b]
         \/ /\ budgets[b].status \in {"ACCEPTED", "PAID"}
            /\ Becomes(b, "PAID", budgets[b].schedule)
         \/ \E r \in BudgetRequests :
              /\ requests[r].pc = "insert"
              /\ requests'[r].pc = "idle"
              /\ budgets[b].status = "NONE"
              /\ \A earlier \in BudgetIds :
                   earlier < b => budgets[earlier].status # "NONE"
              /\ \A d \in BudgetIds : ~B!IsActive(d, requests[r].schedule)
              /\ Becomes(b, "SENT", requests[r].schedule)
         \/ \E r \in BudgetRequests :
              /\ requests[r].pc = "answer"
              /\ requests'[r].pc = "idle"
              /\ budgets[b].status = "SENT"
              /\ \E answer \in {"ACCEPTED", "REJECTED"} :
                   Becomes(b, answer, budgets[b].schedule)
<1>t. MarketTypeOK /\ IInv
  BY DEF MarketIInv
<1>1. ASSUME NEW h \in Handlers, handlers[h].pc = "settle", handlers[h].budget = b
      PROVE  budgets[b].status \in {"ACCEPTED", "PAID"}
  <2>1. PICK G : G = WantedBudgets
    OBVIOUS
  <2>2. b \in G
    BY <1>t, <1>1, <2>1, SettlingCharged
  <2> QED
    BY <2>1, <2>2 DEF WantedBudgets
<1>2. \A r \in BudgetRequests :
        /\ requests[r].pc = "answer" /\ requests[r].budget = b =>
             budgets[b].status = "SENT"
        /\ requests[r].pc = "insert" =>
             \A d \in BudgetIds : ~B!IsActive(d, requests[r].schedule)
  BY DEF ChecksHold
<1> QED
  BY <1>t, <1>1, <1>2, BudgetSteps DEF B!Answer

LEMMA StepStatuses ==
  MarketIInv /\ DealInv /\ [MarketNext]_marketVars => StatusesWritten'
<1> SUFFICES ASSUME MarketIInv, DealInv, [MarketNext]_marketVars, NEW b \in BudgetIds
             PROVE  budgets'[b].status \in {"NONE", "SENT", "ACCEPTED", "REJECTED", "PAID"}
  BY DEF StatusesWritten
<1> QED
  BY DealBudgetSteps DEF DealInv, StatusesWritten, Becomes

LEMMA StepWanted ==
  MarketIInv /\ DealInv /\ [MarketNext]_marketVars => MoneyFor(WantedBudgets)'
<1> SUFFICES ASSUME MarketIInv, DealInv, [MarketNext]_marketVars
             PROVE  MoneyFor(WantedBudgets)'
  OBVIOUS
<1>1. PICK G : G = WantedBudgets
  OBVIOUS
<1>2. MoneyFor(G)'
  BY <1>1, MoneyForSteps DEF DealInv, WantedBudgets
<1>3. ASSUME NEW b \in G PROVE b \in WantedBudgets'
  <2>1. b \in BudgetIds /\ budgets[b].status \in {"ACCEPTED", "PAID"}
    BY <1>1, <1>3 DEF WantedBudgets
  <2>2. budgets'[b].status \in {"ACCEPTED", "PAID"}
    BY <2>1, DealBudgetSteps DEF DealInv, Becomes
  <2> QED
    BY <2>1, <2>2 DEF WantedBudgets
<1> QED
  BY <1>2, <1>3 DEF MoneyFor

\* With one budget request, nobody else writes between its check and its write.
LEMMA StepChecks ==
  ASSUME OneBudgetRequest
  PROVE  MarketIInv /\ DealInv /\ [MarketNext]_marketVars => ChecksHold'
<1> SUFFICES ASSUME MarketIInv, DealInv, [MarketNext]_marketVars,
                    NEW r \in BudgetRequests
             PROVE  /\ requests'[r].pc = "answer" =>
                         budgets'[requests'[r].budget].status = "SENT"
                    /\ requests'[r].pc = "insert" =>
                         \A b \in BudgetIds :
                           ~(/\ budgets'[b].schedule = requests'[r].schedule
                             /\ budgets'[b].status \in B!ActiveStatus)
  BY DEF ChecksHold, B!IsActive
<1>t. MarketTypeOK /\ ChecksHold /\ MoneyFor(WantedBudgets)
  BY DEF MarketIInv, DealInv
<1>o. \A q \in BudgetRequests : q = r
  BY DEF OneBudgetRequest
<1>1. ASSUME requests'[r] = requests[r], requests[r].pc = "answer"
      PROVE  budgets'[requests[r].budget].status = "SENT"
  <2>1. PICK b : b = requests[r].budget
    OBVIOUS
  <2>2. b \in BudgetIds /\ budgets[b].status = "SENT"
    BY <1>t, <1>1, <2>1, RequestCases DEF MarketTypeOK, B!Answering, ChecksHold
  <2> QED
    BY <1>t, <1>o, <1>1, <2>1, <2>2, DealBudgetSteps
<1>2. ASSUME requests'[r] = requests[r], requests[r].pc = "insert",
             NEW b \in BudgetIds,
             budgets'[b].schedule = requests[r].schedule,
             budgets'[b].status \in B!ActiveStatus
      PROVE  FALSE
  <2>1. ~(budgets[b].schedule = requests[r].schedule
          /\ budgets[b].status \in B!ActiveStatus)
    BY <1>t, <1>2 DEF ChecksHold, B!IsActive
  <2> QED
    BY <1>t, <1>o, <1>2, <2>1, DealBudgetSteps DEF Becomes, B!ActiveStatus
<1>3. ASSUME UNCHANGED budgets, requests'[r].pc = "insert",
             requests'[r].schedule = requests[r].schedule,
             \A b \in BudgetIds : ~B!IsActive(b, requests[r].schedule)
      PROVE  \A b \in BudgetIds :
               ~(/\ budgets'[b].schedule = requests'[r].schedule
                 /\ budgets'[b].status \in B!ActiveStatus)
  BY <1>3 DEF B!IsActive
<1> QED
  BY <1>t, <1>1, <1>2, <1>3, RequestSteps

LEMMA StepIds ==
  MarketIInv /\ DealInv /\ [MarketNext]_marketVars => IdsInOrder'
<1> SUFFICES ASSUME MarketIInv, DealInv, [MarketNext]_marketVars,
                    NEW b \in BudgetIds, NEW earlier \in BudgetIds,
                    earlier < b, budgets'[b].status # "NONE"
             PROVE  budgets'[earlier].status # "NONE"
  BY DEF IdsInOrder
<1>1. budgets[earlier].status # "NONE"
  BY DealBudgetSteps DEF DealInv, IdsInOrder, Becomes
<1> QED
  BY <1>1, DealBudgetSteps DEF DealInv, Becomes

-----------------------------------------------------------------------------
(* A step adds one budget, which is then the one shown, or none.           *)

\* Budget b is new, and of visit s; no other is new or of another visit.
Adds(b, s) ==
  /\ budgets[b].status = "NONE"
  /\ \A d \in BudgetIds : ~B!IsActive(d, s)
  /\ budgets' = [budgets EXCEPT ![b] = [status |-> "SENT", schedule |-> s]]
  /\ \A d \in BudgetIds : budgets[d].status # "NONE" => d < b

\* The budgets of every visit stay the same ones, and no status becomes active.
AddsNone ==
  \A b \in BudgetIds :
    /\ budgets'[b].schedule = budgets[b].schedule
    /\ budgets'[b].status = "NONE" <=> budgets[b].status = "NONE"
    /\ budgets'[b].status \in B!ActiveStatus => budgets[b].status \in B!ActiveStatus

LEMMA AddsOne ==
  ASSUME MarketIInv, DealInv, NEW r \in BudgetRequests, NEW b \in BudgetIds,
         B!InsertBudget(r, b)
  PROVE  requests[r].schedule \in ScheduleIds /\ Adds(b, requests[r].schedule)
<1>1. requests[r].schedule \in ScheduleIds
  BY RequestCases DEF MarketIInv, MarketTypeOK, B!InsertBudget, B!Creating
<1>2. /\ budgets[b].status = "NONE"
      /\ budgets' =
           [budgets EXCEPT ![b] = [status |-> "SENT", schedule |-> requests[r].schedule]]
      /\ \A d \in BudgetIds : ~B!IsActive(d, requests[r].schedule)
  BY DEF B!InsertBudget, B!IsNextId, DealInv, ChecksHold
<1>3. ASSUME NEW d \in BudgetIds, budgets[d].status # "NONE" PROVE d < b
  <2>1. d # b /\ ~(b < d) /\ d \in Nat /\ b \in Nat
    BY <1>2, <1>3, MarketplaceAssumption DEF DealInv, IdsInOrder
  <2> QED
    BY <2>1
<1> QED
  BY <1>1, <1>2, <1>3 DEF Adds

LEMMA AnswerAddsNone ==
  ASSUME MarketIInv, DealInv, NEW r \in BudgetRequests, B!WriteAnswer(r)
  PROVE  AddsNone
<1>t. MarketTypeOK /\ ChecksHold /\ budgets \in [BudgetIds -> BudgetRow]
  BY DEF MarketIInv, IInv, DealInv, TypeOK, TablesTypeOK
<1>1. PICK d, answer : d = requests[r].budget /\ answer = requests[r].status
  OBVIOUS
<1>2. /\ answer \in B!Answer
      /\ budgets' =
           [budgets EXCEPT ![d] = [status |-> answer, schedule |-> budgets[d].schedule]]
  BY <1>t, <1>1, WriteAnswerFacts
<1>3. budgets[d].status = "SENT"
  BY <1>t, <1>1 DEF B!WriteAnswer, ChecksHold
<1>4. ASSUME NEW b \in BudgetIds
      PROVE  /\ budgets'[b].schedule = budgets[b].schedule
             /\ budgets'[b].status = "NONE" <=> budgets[b].status = "NONE"
             /\ budgets'[b].status \in B!ActiveStatus =>
                  budgets[b].status \in B!ActiveStatus
  <2>1. CASE b = d
    BY <1>t, <1>2, <1>3, <2>1 DEF B!Answer, B!ActiveStatus
  <2>2. CASE b # d
    BY <1>t, <1>2, <2>2
  <2> QED
    BY <2>1, <2>2
<1> QED
  BY <1>4 DEF AddsNone

LEMMA BudgetAdds ==
  ASSUME MarketIInv, DealInv, [MarketNext]_marketVars
  PROVE  \/ AddsNone
         \/ \E r \in BudgetRequests, b \in BudgetIds : B!InsertBudget(r, b)
<1>t. /\ MarketTypeOK /\ IInv /\ TypeOK /\ ChecksHold /\ MoneyFor(WantedBudgets)
      /\ budgets \in [BudgetIds -> BudgetRow]
  BY DEF MarketIInv, IInv, DealInv, TypeOK, TablesTypeOK
<1>1. CASE UNCHANGED budgets
  BY <1>1 DEF AddsNone
<1>2. CASE [Next]_vars
  <2>1. ASSUME NEW b \in BudgetIds, NEW h \in Handlers, handlers[h].pc = "settle",
               handlers[h].budget = b,
               budgets'[b] = [budgets[b] EXCEPT !.status = "PAID"]
        PROVE  /\ budgets[b].status \in B!ActiveStatus
               /\ Becomes(b, "PAID", budgets[b].schedule)
    <3>1. PICK G : G = WantedBudgets
      OBVIOUS
    <3>2. b \in G
      BY <1>t, <2>1, <3>1, SettlingCharged
    <3>3. budgets[b].status \in {"ACCEPTED", "PAID"} /\ budgets[b] \in BudgetRow
      BY <1>t, <3>1, <3>2 DEF WantedBudgets
    <3>4. budgets'[b].status = "PAID" /\ budgets'[b].schedule = budgets[b].schedule
      BY <2>1, <3>3 DEF BudgetRow
    <3> QED
      BY <3>3, <3>4 DEF B!ActiveStatus, Becomes
  <2>2. \A b \in BudgetIds :
          \/ budgets'[b] = budgets[b]
          \/ /\ budgets[b].status \in B!ActiveStatus
             /\ Becomes(b, "PAID", budgets[b].schedule)
    BY <1>2, <1>t, <2>1, PaymentsSteps
  <2> QED
    BY <2>2 DEF AddsNone, Becomes, B!ActiveStatus
<1>3. \A r \in BudgetRequests : B!WriteAnswer(r) => AddsNone
  BY AnswerAddsNone
<1>4. CASE B!RequestsNext
  BY <1>1, <1>3, <1>4, BudgetCases, BudgetLooksOnly
<1>5. CASE S!VisitsNext
  BY <1>1, <1>5, VisitCases, VisitLooksOnly
     DEF S!CreateJob, S!CreateSchedule, S!UpdateSchedule, S!DeleteSchedule, S!DeleteJob
<1> QED
  BY <1>1, <1>2, <1>4, <1>5 DEF MarketNext, marketVars

\* What is shown of a visit, after each of the two.
LEMMA ShownSame ==
  ASSUME AddsNone, NEW s
  PROVE  /\ B!BudgetsOf(s)' = B!BudgetsOf(s)
         /\ \A b : B!IsShown(b, s)' <=> B!IsShown(b, s)
  BY DEF AddsNone, B!BudgetsOf, B!IsShown

LEMMA ShownNew ==
  ASSUME MarketIInv, NEW b \in BudgetIds, NEW s \in ScheduleIds, Adds(b, s)
  PROVE  /\ B!BudgetsOf(s)' = B!BudgetsOf(s) \cup {b}
         /\ \A d : B!IsShown(d, s)' <=> d = b
         /\ \A v \in ScheduleIds \ {s} :
              /\ B!BudgetsOf(v)' = B!BudgetsOf(v)
              /\ \A d : B!IsShown(d, v)' <=> B!IsShown(d, v)
<1>1. budgets \in [BudgetIds -> BudgetRow] /\ BudgetIds \subseteq Nat
  BY MarketplaceAssumption DEF MarketIInv, IInv, TypeOK, TablesTypeOK
<1>2. /\ budgets'[b].status # "NONE" /\ budgets'[b].schedule = s
      /\ \A d \in BudgetIds \ {b} : budgets'[d] = budgets[d]
      /\ budgets[b].status = "NONE"
  BY <1>1 DEF Adds
<1>3. /\ B!BudgetsOf(s)' = B!BudgetsOf(s) \cup {b}
      /\ \A v \in ScheduleIds \ {s} : B!BudgetsOf(v)' = B!BudgetsOf(v)
  BY <1>2 DEF B!BudgetsOf
<1>4. ASSUME NEW d PROVE B!IsShown(d, s)' <=> d = b
  <2>1. \A e \in B!BudgetsOf(s) : e < b /\ e \in Nat
    BY <1>1 DEF Adds, B!BudgetsOf
  <2>2. b \in Nat
    BY <1>1
  <2> QED
    BY <1>3, <2>1, <2>2 DEF B!IsShown
<1>5. ASSUME NEW v \in ScheduleIds \ {s}, NEW d
      PROVE  B!IsShown(d, v)' <=> B!IsShown(d, v)
  BY <1>3 DEF B!IsShown
<1> QED
  BY <1>3, <1>4, <1>5

LEMMA StepLatest == MarketIInv /\ DealInv /\ [MarketNext]_marketVars => LatestExists'
<1> SUFFICES ASSUME MarketIInv, DealInv, [MarketNext]_marketVars,
                    NEW v \in ScheduleIds, B!BudgetsOf(v)' # {}
             PROVE  \E b \in BudgetIds : B!IsShown(b, v)'
  BY DEF LatestExists
<1>1. B!BudgetsOf(v) # {} => \E b \in BudgetIds : B!IsShown(b, v)
  BY DEF DealInv, LatestExists
<1>2. CASE AddsNone
  BY <1>1, <1>2, ShownSame
<1>3. ASSUME NEW b \in BudgetIds, NEW s \in ScheduleIds, Adds(b, s)
      PROVE  \E d \in BudgetIds : B!IsShown(d, v)'
  BY <1>1, <1>3, ShownNew
<1> QED
  BY <1>2, <1>3, BudgetAdds, AddsOne

LEMMA StepOneActive ==
  MarketIInv /\ DealInv /\ [MarketNext]_marketVars => (OneActiveBudget /\ ShownIsActive)'
<1> SUFFICES ASSUME MarketIInv, DealInv, [MarketNext]_marketVars
             PROVE  (OneActiveBudget /\ ShownIsActive)'
  OBVIOUS
<1>a. /\ \A b1, b2 \in BudgetIds :
           /\ b1 # b2
           /\ budgets[b1].status \in B!ActiveStatus
           /\ budgets[b2].status \in B!ActiveStatus
           => budgets[b1].schedule # budgets[b2].schedule
      /\ \A b \in BudgetIds :
           budgets[b].status \in B!ActiveStatus => B!IsShown(b, budgets[b].schedule)
  BY DEF DealInv, OneActiveBudget, ShownIsActive, B!IsActive
<1> SUFFICES
      /\ \A b1, b2 \in BudgetIds :
           /\ b1 # b2
           /\ budgets'[b1].status \in B!ActiveStatus
           /\ budgets'[b2].status \in B!ActiveStatus
           => budgets'[b1].schedule # budgets'[b2].schedule
      /\ \A b \in BudgetIds : \A v :
           budgets'[b].status \in B!ActiveStatus /\ budgets'[b].schedule = v
             => B!IsShown(b, v)'
  BY DEF OneActiveBudget, ShownIsActive, B!IsActive, B!IsShown
<1>1. CASE AddsNone
  BY <1>1, <1>a, ShownSame DEF AddsNone
<1>2. ASSUME NEW b \in BudgetIds, NEW s \in ScheduleIds, Adds(b, s)
      PROVE  /\ \A b1, b2 \in BudgetIds :
                  /\ b1 # b2
                  /\ budgets'[b1].status \in B!ActiveStatus
                  /\ budgets'[b2].status \in B!ActiveStatus
                  => budgets'[b1].schedule # budgets'[b2].schedule
             /\ \A d \in BudgetIds : \A v :
                  budgets'[d].status \in B!ActiveStatus /\ budgets'[d].schedule = v
                    => B!IsShown(d, v)'
  <2>1. budgets \in [BudgetIds -> BudgetRow]
    BY DEF MarketIInv, IInv, TypeOK, TablesTypeOK
  <2>2. /\ budgets'[b].schedule = s
        /\ \A d \in BudgetIds \ {b} :
             /\ budgets'[d] = budgets[d]
             /\ budgets[d].status \in B!ActiveStatus => budgets[d].schedule # s
    BY <1>2, <2>1 DEF Adds, B!IsActive
  <2>3. \A d \in BudgetIds : budgets[d].schedule \in ScheduleIds
    BY <2>1 DEF BudgetRow
  <2>4. ASSUME NEW d \in BudgetIds \ {b}, NEW v,
               budgets'[d].status \in B!ActiveStatus, budgets'[d].schedule = v
        PROVE  B!IsShown(d, v)'
    <3>1. B!IsShown(d, v) /\ v \in ScheduleIds \ {s}
      BY <1>a, <2>2, <2>3, <2>4
    <3> QED
      BY <1>2, <3>1, ShownNew
  <2>5. B!IsShown(b, s)'
    BY <1>2, ShownNew
  <2> QED
    BY <1>a, <2>2, <2>4, <2>5
<1> QED
  BY <1>1, <1>2, BudgetAdds, AddsOne

LEMMA InitDeal == MarketInit => DealInv
<1> SUFFICES ASSUME MarketInit PROVE DealInv
  OBVIOUS
<1>1. \A b \in BudgetIds : budgets[b].status = "NONE"
  BY DEF MarketInit
<1>2. MoneyFor(WantedBudgets)
  BY InitMoneyFor
<1>3. StatusesWritten /\ IdsInOrder /\ OneActiveBudget /\ ShownIsActive
  BY <1>1 DEF StatusesWritten, IdsInOrder, OneActiveBudget, ShownIsActive, B!IsActive,
              B!ActiveStatus
<1>4. LatestExists
  BY <1>1 DEF LatestExists, B!BudgetsOf
<1>5. ChecksHold
  BY DEF MarketInit, B!RequestsInit, B!Idle, ChecksHold
<1> QED
  BY <1>2, <1>3, <1>4, <1>5 DEF DealInv

LEMMA StepDeal ==
  ASSUME OneBudgetRequest
  PROVE  MarketIInv /\ DealInv /\ [MarketNext]_marketVars => DealInv'
  BY StepStatuses, StepChecks, StepWanted, StepIds, StepLatest, StepOneActive
     DEF DealInv

\* A visit never has two active budgets, wherever the one budget request at a
\* time is cut off and whatever is paid, refunded or deleted meanwhile.
THEOREM OneActiveBudgetCorrect ==
  ASSUME OneBudgetRequest
  PROVE  MarketSpec => []OneActiveBudget
<1>1. DealInv => OneActiveBudget
  BY DEF DealInv
<1> QED
  BY <1>1, MarketInitIInv, MarketStepIInv, InitDeal, StepDeal, PTL DEF MarketSpec

\* The active budget of a visit is the one the app shows, the latest.
THEOREM ShownIsActiveCorrect ==
  ASSUME OneBudgetRequest
  PROVE  MarketSpec => []ShownIsActive
<1>1. DealInv => ShownIsActive
  BY DEF DealInv
<1> QED
  BY <1>1, MarketInitIInv, MarketStepIInv, InitDeal, StepDeal, PTL DEF MarketSpec

\* An answer stands until the budget is paid: what fails for two answers at a
\* time holds for one.
THEOREM AnswerStandsCorrect ==
  ASSUME OneBudgetRequest
  PROVE  MarketSpec => AnswerStands
<1> DEFINE Stands ==
      \A b \in BudgetIds :
        budgets[b].status \notin {"NONE", "SENT"} =>
          budgets'[b].status \in {budgets[b].status, "PAID"}
<1>1. MarketIInv /\ DealInv /\ [MarketNext]_marketVars => [Stands]_marketVars
  BY DealBudgetSteps DEF DealInv, Becomes
<1> QED
  BY <1>1, MarketInitIInv, MarketStepIInv, InitDeal, StepDeal, PTL
     DEF MarketSpec, AnswerStands

-----------------------------------------------------------------------------
(* The flow implements Deal.                                               *)

Fees == {s \in ScheduleIds : Approved(s)}
Offers == [s \in ScheduleIds |-> B!ShownStatus(s)]
Prices == {s \in ScheduleIds : \E b \in BudgetIds : B!IsShown(b, s) /\ Approved(b)}

\* Ids are numbers, so one budget is shown at most.
LEMMA ShownIsOne ==
  ASSUME NEW T, T \subseteq BudgetIds, NEW b \in T, \A e \in T : e <= b
  PROVE  \A d \in T : (\A e \in T : e <= d) => d = b
<1>1. \A d \in T : d \in Nat
  BY MarketplaceAssumption
<1> QED
  BY <1>1

LEMMA ShownStatusIs ==
  ASSUME NEW b \in BudgetIds, NEW s
  PROVE  /\ B!IsShown(b, s) => B!ShownStatus(s) = budgets[b].status
         /\ B!IsShown(b, s)' => B!ShownStatus(s)' = budgets'[b].status
<1>1. ASSUME B!IsShown(b, s) PROVE B!ShownStatus(s) = budgets[b].status
  <2>1. PICK c : c = CHOOSE x \in BudgetIds : B!IsShown(x, s)
    OBVIOUS
  <2>2. c \in BudgetIds /\ B!IsShown(c, s)
    BY <1>1, <2>1
  <2>3. c = b
    BY <1>1, <2>2, ShownIsOne DEF B!IsShown, B!BudgetsOf
  <2>4. B!BudgetsOf(s) # {}
    BY <1>1 DEF B!IsShown
  <2> QED
    BY <2>1, <2>3, <2>4 DEF B!ShownStatus
<1>2. ASSUME B!IsShown(b, s)' PROVE B!ShownStatus(s)' = budgets'[b].status
  <2>1. PICK c : c = CHOOSE x \in BudgetIds : B!IsShown(x, s)'
    OBVIOUS
  <2>2. c \in BudgetIds /\ B!IsShown(c, s)'
    BY <1>2, <2>1
  <2>3. c = b
    BY <1>2, <2>2, ShownIsOne DEF B!IsShown, B!BudgetsOf
  <2>4. B!BudgetsOf(s)' # {}
    BY <1>2 DEF B!IsShown
  <2> QED
    BY <2>1, <2>3, <2>4 DEF B!ShownStatus
<1> QED
  BY <1>1, <1>2

\* The offer of a visit is that of its shown budget, or NONE.
LEMMA OffersAre ==
  ASSUME DealInv, NEW v \in ScheduleIds
  PROVE  \/ B!BudgetsOf(v) = {} /\ B!ShownStatus(v) = "NONE"
         \/ \E b \in BudgetIds : B!IsShown(b, v) /\ B!ShownStatus(v) = budgets[b].status
<1>1. CASE B!BudgetsOf(v) = {}
  BY <1>1 DEF B!ShownStatus
<1>2. CASE B!BudgetsOf(v) # {}
  BY <1>2, ShownStatusIs DEF DealInv, LatestExists
<1> QED
  BY <1>1, <1>2

\* An active budget is its visit's offer.
LEMMA ActiveIsOffered ==
  ASSUME MarketIInv, DealInv, NEW b \in BudgetIds, budgets[b].status \in B!ActiveStatus
  PROVE  /\ budgets[b].schedule \in ScheduleIds
         /\ B!IsShown(b, budgets[b].schedule)
         /\ Offers[budgets[b].schedule] = budgets[b].status
<1>1. budgets[b].schedule \in ScheduleIds
  BY DEF MarketIInv, IInv, TypeOK, TablesTypeOK, BudgetRow
<1>2. B!IsShown(b, budgets[b].schedule)
  BY DEF DealInv, ShownIsActive, B!IsActive
<1> QED
  BY <1>1, <1>2, ShownStatusIs DEF Offers

LEMMA OfferStays ==
  ASSUME DealInv, NEW u \in ScheduleIds,
         B!BudgetsOf(u)' = B!BudgetsOf(u),
         \A d : B!IsShown(d, u)' <=> B!IsShown(d, u),
         \A d \in B!BudgetsOf(u) : budgets'[d] = budgets[d]
  PROVE  B!ShownStatus(u)' = B!ShownStatus(u)
<1>1. CASE B!BudgetsOf(u) = {}
  BY <1>1 DEF B!ShownStatus
<1>2. CASE B!BudgetsOf(u) # {}
  <2>1. PICK d \in BudgetIds : B!IsShown(d, u)
    BY <1>2 DEF DealInv, LatestExists
  <2>2. d \in B!BudgetsOf(u) /\ B!IsShown(d, u)'
    BY <2>1 DEF B!IsShown
  <2> QED
    BY <2>1, <2>2, ShownStatusIs
<1> QED
  BY <1>1, <1>2

\* A step that changes the status of one shown budget, and no other, changes
\* one offer.
LEMMA OfferMoves ==
  ASSUME MarketIInv, DealInv, AddsNone, UNCHANGED charges,
         NEW b \in BudgetIds, NEW v \in ScheduleIds, B!IsShown(b, v), NEW to,
         budgets'[b].status = to,
         \A d \in BudgetIds \ {b} : budgets'[d] = budgets[d]
  PROVE  /\ Offers' = [Offers EXCEPT ![v] = to]
         /\ Fees' = Fees /\ Prices' = Prices
<1>1. \A s : /\ B!BudgetsOf(s)' = B!BudgetsOf(s)
             /\ \A d : B!IsShown(d, s)' <=> B!IsShown(d, s)
  BY ShownSame
<1>2. B!ShownStatus(v)' = to
  BY <1>1, ShownStatusIs
<1>3. ASSUME NEW u \in ScheduleIds \ {v} PROVE B!ShownStatus(u)' = B!ShownStatus(u)
  <2>1. b \notin B!BudgetsOf(u)
    BY DEF B!IsShown, B!BudgetsOf
  <2> QED
    BY <1>1, <2>1, OfferStays DEF B!BudgetsOf
<1>4. Offers' = [Offers EXCEPT ![v] = to]
  BY <1>2, <1>3 DEF Offers
<1>5. \A x : Approved(x)' <=> Approved(x)
  BY DEF Approved
<1> QED
  BY <1>1, <1>4, <1>5 DEF Fees, Prices

\* WriteAnswer is Answer.
LEMMA AnswersDeal ==
  ASSUME MarketIInv, DealInv, NEW r \in BudgetRequests, B!WriteAnswer(r),
         UNCHANGED charges
  PROVE  [D!Next]_<<Fees, Offers, Prices>>
<1>1. PICK b, answer : b = requests[r].budget /\ answer = requests[r].status
  OBVIOUS
<1>2. /\ b \in BudgetIds
      /\ answer \in {"ACCEPTED", "REJECTED"}
      /\ budgets' =
           [budgets EXCEPT ![b] = [status |-> answer, schedule |-> budgets[b].schedule]]
  BY <1>1, WriteAnswerFacts DEF MarketIInv, B!Answer
<1>3. budgets[b].status = "SENT"
  BY <1>1 DEF B!WriteAnswer, DealInv, ChecksHold
<1>4. PICK v : v = budgets[b].schedule
  OBVIOUS
<1>5. v \in ScheduleIds /\ B!IsShown(b, v) /\ Offers[v] = "SENT"
  BY <1>2, <1>3, <1>4, ActiveIsOffered DEF B!ActiveStatus
<1>6. /\ budgets'[b].status = answer
      /\ \A d \in BudgetIds \ {b} : budgets'[d] = budgets[d]
  BY <1>2 DEF MarketIInv, IInv, TypeOK, TablesTypeOK
<1>7. /\ Offers' = [Offers EXCEPT ![v] = answer]
      /\ Fees' = Fees /\ Prices' = Prices
  BY <1>2, <1>5, <1>6, AnswerAddsNone, OfferMoves
<1> QED
  BY <1>2, <1>5, <1>7 DEF D!Next, D!Answer, D!Moves, Fees, Offers, Prices

\* InsertBudget is Offer: the fee has been collected, and no budget is active.
LEMMA OffersDeal ==
  ASSUME MarketIInv, DealInv, FeeCollected, UNCHANGED charges,
         NEW r \in BudgetRequests, NEW b \in BudgetIds, B!InsertBudget(r, b)
  PROVE  [D!Next]_<<Fees, Offers, Prices>>
<1>1. PICK s \in ScheduleIds : s = requests[r].schedule /\ Adds(b, s)
  BY AddsOne
<1>2. Approved(s)
  BY <1>1 DEF FeeCollected, B!InsertBudget
<1>3. /\ budgets[b].status = "NONE"
      /\ \A d \in BudgetIds : budgets[d].schedule = s => budgets[d].status \notin B!ActiveStatus
      /\ budgets'[b].status = "SENT"
      /\ \A d \in BudgetIds \ {b} : budgets'[d] = budgets[d]
  BY <1>1 DEF Adds, B!IsActive, MarketIInv, IInv, TypeOK, TablesTypeOK
<1>4. B!ShownStatus(s) \in {"NONE", "REJECTED"}
  <2>1. ASSUME NEW d \in BudgetIds, B!IsShown(d, s)
        PROVE  budgets[d].status = "REJECTED"
    BY <1>3, <2>1
       DEF B!IsShown, B!BudgetsOf, DealInv, StatusesWritten, B!ActiveStatus
  <2> QED
    BY <2>1, OffersAre
<1>5. B!ShownStatus(s)' = "SENT"
  BY <1>1, <1>3, ShownNew, ShownStatusIs
<1>6. ASSUME NEW u \in ScheduleIds \ {s} PROVE B!ShownStatus(u)' = B!ShownStatus(u)
  <2>1. /\ B!BudgetsOf(u)' = B!BudgetsOf(u)
        /\ \A d : B!IsShown(d, u)' <=> B!IsShown(d, u)
    BY <1>1, ShownNew
  <2>2. \A d \in B!BudgetsOf(u) : budgets'[d] = budgets[d]
    BY <1>3 DEF B!BudgetsOf
  <2> QED
    BY <2>1, <2>2, OfferStays
<1>7. Offers' = [Offers EXCEPT ![s] = "SENT"]
  BY <1>5, <1>6 DEF Offers
<1>8. \A x : Approved(x)' <=> Approved(x)
  BY DEF Approved
<1>9. Prices' = Prices
  <2>1. \A d \in BudgetIds : Approved(d) => budgets[d].status \in {"ACCEPTED", "PAID"}
    BY DEF DealInv, MoneyFor, WantedBudgets, Approved
  <2>2. ASSUME NEW d \in BudgetIds, B!IsShown(d, s) PROVE ~Approved(d)
    BY <1>3, <2>1, <2>2 DEF B!IsShown, B!BudgetsOf, B!ActiveStatus
  <2>3. ~Approved(b)
    BY <1>3, <2>1
  <2>4. \A d : B!IsShown(d, s)' <=> d = b
    BY <1>1, ShownNew
  <2>5. \A u \in ScheduleIds \ {s} : \A d : B!IsShown(d, u)' <=> B!IsShown(d, u)
    BY <1>1, ShownNew
  <2> QED
    BY <1>8, <2>2, <2>3, <2>4, <2>5 DEF Prices
<1>10. Fees' = Fees /\ s \in Fees
  BY <1>2, <1>8 DEF Fees
<1>11. Offers[s] \in {"NONE", "REJECTED"}
  BY <1>4 DEF Offers
<1> QED
  BY <1>7, <1>9, <1>10, <1>11 DEF D!Next, D!Offer, D!Moves, Fees, Offers, Prices

\* MarkBudgetPaid is Settle, or has been done before.
LEMMA SettlesDeal ==
  ASSUME MarketIInv, DealInv, NEW h \in Handlers, MarkBudgetPaid(h)
  PROVE  [D!Next]_<<Fees, Offers, Prices>>
<1>t. IInv /\ budgets \in [BudgetIds -> BudgetRow]
  BY DEF MarketIInv, IInv, TypeOK, TablesTypeOK
<1>1. PICK b : b = handlers[h].budget
  OBVIOUS
<1>2. /\ b \in BudgetIds
      /\ budgets[b].status \in {"ACCEPTED", "PAID"}
      /\ Approved(b)
  <2>1. PICK G : G = WantedBudgets
    OBVIOUS
  <2>2. b \in BudgetIds \cap G
    BY <1>t, <1>1, <2>1, SettlingCharged DEF MarkBudgetPaid, DealInv
  <2> QED
    BY <1>t, <1>1, <2>1, <2>2
       DEF WantedBudgets, IInv, RequestsBacked, RequestBacked, MarkBudgetPaid
<1>3. /\ budgets'[b].status = "PAID" /\ budgets'[b].schedule = budgets[b].schedule
      /\ \A d \in BudgetIds \ {b} : budgets'[d] = budgets[d]
  BY <1>t, <1>1, <1>2 DEF MarkBudgetPaid, BudgetRow
<1>4. AddsNone
  BY <1>2, <1>3 DEF AddsNone, B!ActiveStatus
<1>5. PICK v : v = budgets[b].schedule
  OBVIOUS
<1>6. v \in ScheduleIds /\ B!IsShown(b, v) /\ Offers[v] = budgets[b].status
  BY <1>2, <1>5, ActiveIsOffered DEF B!ActiveStatus
<1>7. /\ Offers' = [Offers EXCEPT ![v] = "PAID"]
      /\ Fees' = Fees /\ Prices' = Prices
  <2>1. UNCHANGED charges
    BY DEF MarkBudgetPaid
  <2> QED
    BY <1>2, <1>3, <1>4, <1>6, <2>1, OfferMoves
<1>8. v \in Prices
  BY <1>2, <1>6 DEF Prices
<1>9. CASE Offers[v] = "PAID"
  BY <1>6, <1>7, <1>9 DEF Offers
<1>10. CASE Offers[v] = "ACCEPTED"
  BY <1>6, <1>7, <1>8, <1>10 DEF D!Next, D!Settle, D!Moves, Fees, Offers, Prices
<1> QED
  BY <1>2, <1>6, <1>9, <1>10

\* A charge that comes to be approved is CollectFee or CollectPrice, when it is
\* the first one of its target.
LEMMA CollectsDeal ==
  ASSUME MarketIInv, DealInv, MoneyFor(WantedBudgets)', UNCHANGED budgets, Grows,
         NEW t, \A x : Approved(x)' => Approved(x) \/ x = t
  PROVE  [D!Next]_<<Fees, Offers, Prices>>
<1>g. \A x : Approved(x) => Approved(x)'
  BY ApprovedStable
<1>1. /\ \A s : B!BudgetsOf(s)' = B!BudgetsOf(s)
      /\ \A s : \A d : B!IsShown(d, s)' <=> B!IsShown(d, s)
  BY DEF B!BudgetsOf, B!IsShown
<1>2. Offers' = Offers
  <2>1. \A u \in ScheduleIds : B!ShownStatus(u)' = B!ShownStatus(u)
    BY <1>1, OfferStays
  <2> QED
    BY <2>1 DEF Offers
<1>3. CASE t \in ScheduleIds
  <2>1. t \notin BudgetIds
    BY <1>3, SchemaAssumption
  <2>2. Prices' = Prices
    BY <1>g, <1>1, <2>1 DEF Prices
  <2>3. Fees' = Fees \/ Fees' = Fees \cup {t}
    BY <1>g, <1>3 DEF Fees
  <2> QED
    BY <1>2, <1>3, <2>2, <2>3 DEF D!Next, D!CollectFee, Fees, Offers, Prices
<1>4. CASE t \in BudgetIds /\ Approved(t)' /\ ~Approved(t)
  <2>1. Fees' = Fees
    BY <1>g, <1>4, SchemaAssumption DEF Fees
  <2>2. budgets[t].status = "ACCEPTED"
    <3>1. budgets[t].status \in {"ACCEPTED", "PAID"}
      BY <1>4 DEF MoneyFor, WantedBudgets, Approved
    <3> QED
      BY <1>4, <3>1 DEF MarketIInv, IInv, SettledOnlyIfApproved
  <2>3. PICK v : v = budgets[t].schedule
    OBVIOUS
  <2>4. v \in ScheduleIds /\ B!IsShown(t, v) /\ Offers[v] = "ACCEPTED"
    BY <1>4, <2>2, <2>3, ActiveIsOffered DEF B!ActiveStatus
  <2>5. \A s : B!IsShown(t, s) => s = v
    BY <2>3 DEF B!IsShown, B!BudgetsOf
  <2>6. Prices' = Prices \cup {v}
    BY <1>g, <1>1, <1>4, <2>4, <2>5 DEF Prices
  <2> QED
    BY <1>2, <2>1, <2>4, <2>6 DEF D!Next, D!CollectPrice, Fees, Offers, Prices
<1>5. CASE t \notin ScheduleIds /\ ~(t \in BudgetIds /\ Approved(t)' /\ ~Approved(t))
  <2>1. Fees' = Fees /\ Prices' = Prices
    BY <1>g, <1>1, <1>5 DEF Fees, Prices
  <2> QED
    BY <1>2, <2>1
<1> QED
  BY <1>3, <1>4, <1>5

LEMMA StepKeepsDeal ==
  MarketIInv /\ DealInv /\ FeeCollected /\ [MarketNext]_marketVars
    => [D!Next]_<<Fees, Offers, Prices>>
<1> SUFFICES ASSUME MarketIInv, DealInv, FeeCollected, [MarketNext]_marketVars
             PROVE  [D!Next]_<<Fees, Offers, Prices>>
  OBVIOUS
<1>1. CASE UNCHANGED <<charges, budgets>>
  <2>1. \A x : Approved(x)' => Approved(x)
    BY <1>1 DEF Approved
  <2>2. Grows
    BY MarketGrows
  <2>3. MoneyFor(WantedBudgets)'
    BY StepWanted
  <2> QED
    BY <1>1, <2>1, <2>2, <2>3, CollectsDeal
<1>2. CASE [Next]_vars
  BY <1>1, <1>2, StepWanted, MoneySteps, SettlesDeal, CollectsDeal DEF MarketIInv
<1>3. CASE B!RequestsNext /\ UNCHANGED <<charges, notices, handlers, jobs, visits>>
  <2>1. ASSUME NEW r \in BudgetRequests, NEW b \in BudgetIds, B!InsertBudget(r, b)
        PROVE  [D!Next]_<<Fees, Offers, Prices>>
    BY <1>3, <2>1, OffersDeal
  <2>2. ASSUME NEW r \in BudgetRequests, B!WriteAnswer(r)
        PROVE  [D!Next]_<<Fees, Offers, Prices>>
    BY <1>3, <2>2, AnswersDeal
  <2> QED
    BY <1>1, <1>3, <2>1, <2>2, BudgetCases, BudgetLooksOnly
<1>4. CASE S!VisitsNext /\ UNCHANGED <<charges, notices, handlers, requests>>
  <2>1. UNCHANGED budgets
    BY <1>4, VisitCases, VisitLooksOnly
       DEF S!CreateJob, S!CreateSchedule, S!UpdateSchedule, S!DeleteSchedule, S!DeleteJob
  <2> QED
    BY <1>1, <1>4, <2>1
<1>5. CASE UNCHANGED marketVars
  BY <1>1, <1>5 DEF marketVars
<1> QED
  BY <1>2, <1>3, <1>4, <1>5 DEF MarketNext, vars, tables

\* What the app shows of a visit, and the money behind it, go the way Deal
\* promises, with any number of payment and visit requests under way and one
\* budget request at a time: each step of the flow is one of Deal's, or none.
THEOREM KeepsDealCorrect ==
  ASSUME OneBudgetRequest
  PROVE  MarketSpec => KeepsDeal
<1>1. MarketInit => D!Init
  <2> SUFFICES ASSUME MarketInit PROVE D!Init
    OBVIOUS
  <2>1. \A x : ~Approved(x)
    BY DEF MarketInit, Approved
  <2>2. \A s \in ScheduleIds : B!ShownStatus(s) = "NONE"
    BY DEF MarketInit, B!BudgetsOf, B!ShownStatus
  <2> QED
    BY <2>1, <2>2 DEF D!Init
<1>2. MarketIInv /\ DealInv /\ FeeCollected /\ [MarketNext]_marketVars
        => [D!Next]_D!deal
  BY StepKeepsDeal DEF D!deal, Fees, Offers, Prices
<1> QED
  BY <1>1, <1>2, MarketInitIInv, MarketStepIInv, InitAnswered, StepAnswered, InitFee,
     StepFee, InitDeal, StepDeal, PTL DEF MarketSpec, KeepsDeal, D!Spec

-----------------------------------------------------------------------------
(* What Payments promises of a budget, with the client's answers about.    *)

\* A PAID budget stays PAID: no answer is under way for it.
LEMMA PaidStays ==
  ASSUME MarketIInv, DealInv, [MarketNext]_marketVars,
         NEW b \in BudgetIds, budgets[b].status = "PAID"
  PROVE  budgets'[b].status = "PAID"
  BY DealBudgetSteps DEF DealInv, Becomes

\* The composed system implements Settlement with one budget request at a time:
\* money first, then PAID, and PAID for good.  With two, the answer of the
\* second overwrites PAID.
THEOREM MarketKeepsPromise ==
  ASSUME OneBudgetRequest
  PROVE  MarketSpec => KeepsPromise
<1>1. MarketInit => Promise!Init
  BY DEF MarketInit, Promise!Init, Approved
<1>2. MarketIInv /\ DealInv /\ [MarketNext]_marketVars
        => [Promise!Next]_<<Collected, Settled>>
  <2> SUFFICES ASSUME MarketIInv, DealInv, [MarketNext]_marketVars
               PROVE  [Promise!Next]_<<Collected, Settled>>
    OBVIOUS
  <2>1. CASE [Next]_vars
    BY <2>1, StepPromise DEF MarketIInv
  <2>2. CASE OthersStep
    <3>1. Collected' = Collected
      BY <2>2 DEF OthersStep, Collected, Approved
    <3>2. Settled' = Settled
      BY <2>2, PaidStays DEF OthersStep, Settled
    <3> QED
      BY <3>1, <3>2
  <2> QED
    BY <2>1, <2>2, MarketCases DEF MarketIInv
<1> QED
  BY <1>1, <1>2, MarketInitIInv, MarketStepIInv, InitDeal, StepDeal, PTL
     DEF MarketSpec, KeepsPromise, Promise!Spec, Collected, Settled

\* With no request cut off between the write of PAID and markBudgetPaid, a PAID
\* payment of a budget has it PAID or about to be, and no answer undoes that:
\* any number of payment and visit requests, one budget request at a time.
THEOREM MarketPaidRowsSettled ==
  ASSUME OneBudgetRequest, "settle" \notin CrashPoints
  PROVE  MarketSpec => []PaidRowsSettled
<1>1. MarketInit => PaidRowsSettled
  BY DEF MarketInit, PaidRowsSettled
<1>2. MarketIInv /\ DealInv /\ PaidRowsSettled /\ [MarketNext]_marketVars
        => PaidRowsSettled'
  <2> SUFFICES ASSUME MarketIInv, DealInv, PaidRowsSettled, [MarketNext]_marketVars
               PROVE  PaidRowsSettled'
    OBVIOUS
  <2>1. CASE [Next]_vars
    BY <2>1, StepPaidRows DEF MarketIInv
  <2>2. CASE OthersStep
    <3> SUFFICES ASSUME NEW i \in DOMAIN payments', payments'[i].status = "PAID",
                        NEW b \in BudgetIds, b = payments'[i].target
                 PROVE  Awaited(b)'
      BY DEF PaidRowsSettled, Awaited
    <3>1. b = payments[i].target
      BY <2>2, SchemaAssumption DEF OthersStep
    <3>2. Awaited(b)
      BY <2>2, <3>1 DEF OthersStep, PaidRowsSettled, Awaited
    <3> QED
      BY <2>2, <3>2, PaidStays DEF OthersStep, Awaited
  <2> QED
    BY <2>1, <2>2, MarketCases DEF MarketIInv
<1> QED
  BY <1>1, <1>2, MarketInitIInv, MarketStepIInv, InitDeal, StepDeal, PTL DEF MarketSpec

-----------------------------------------------------------------------------
(* One payment request at a time, any number of budget requests: the fee   *)
(* is charged before any budget.                                           *)

\* The visit has a budget, or a request that is going to make one.
Committed(s) ==
  \/ B!BudgetsOf(s) # {}
  \/ /\ schedules[s] # "DELETED"
     /\ \E r \in BudgetRequests :
          requests[r].pc \in {"checkActive", "insert"} /\ requests[r].schedule = s

\* Such a visit's fee stands PAID, unless the provider took it back.
FeeStands ==
  \A s \in ScheduleIds : Committed(s) => HasPaidRow(s) \/ TakenBack(s)

\* The invariants of OneRequestProofs, kept by the other components' steps.
LEMMA InitRequest == MarketInit => ReadIsCurrent /\ UnpaidTarget
  BY DEF MarketInit, ReadIsCurrent, UnpaidTarget, Idle

LEMMA MarketStepRequest ==
  ASSUME OneRequest
  PROVE  MarketIInv /\ ReadIsCurrent /\ UnpaidTarget /\ [MarketNext]_marketVars
           => ReadIsCurrent' /\ UnpaidTarget'
<1> SUFFICES ASSUME MarketIInv, ReadIsCurrent, UnpaidTarget, [MarketNext]_marketVars
             PROVE  ReadIsCurrent' /\ UnpaidTarget'
  OBVIOUS
<1>t. TypeOK /\ MarketTypeOK
  BY DEF MarketIInv, IInv
<1>1. CASE [Next]_vars
  BY <1>t, <1>1, StepRead, StepUnpaid
<1>2. CASE OthersStep
  <2>1. ReadIsCurrent'
    BY <1>t, <1>2, ReadStable DEF OthersStep
  <2>2. ASSUME NEW h \in Handlers, handlers[h].pc \in {"findPix", "postPix", "postCard"},
               NEW target, target = handlers[h].target
        PROVE  ~HasPaidRow(target)'
    <3>1. target # NoTarget
      BY <1>t, <2>2, HandlerCases, SchemaAssumption DEF Checkout, Targets
    <3>2. ~HasPaidRow(target)
      BY <2>2 DEF UnpaidTarget
    <3> QED
      BY <1>2, <3>1, <3>2 DEF OthersStep, HasPaidRow
  <2>3. UnpaidTarget'
    BY <1>2, <2>2 DEF UnpaidTarget, OthersStep, HasPaidRow
  <2> QED
    BY <2>1, <2>3
<1> QED
  BY <1>t, <1>1, <1>2, MarketCases

\* applyStatus takes a terminal payment from PAID to REFUNDED at most, with the
\* other components' requests in between its read and its write.
THEOREM MarketTerminalIsFinal ==
  ASSUME OneRequest
  PROVE  MarketSpec => TerminalIsFinal
<1> DEFINE Final ==
      \A i \in DOMAIN payments :
        payments[i].status \in Terminal =>
          \/ payments'[i].status = payments[i].status
          \/ payments[i].status = "PAID" /\ payments'[i].status = "REFUNDED"
<1>1. MarketIInv /\ ReadIsCurrent /\ [MarketNext]_marketVars => [Final]_vars
  <2> SUFFICES ASSUME MarketIInv, ReadIsCurrent, [MarketNext]_marketVars,
                      NEW i \in DOMAIN payments, payments[i].status \in Terminal
               PROVE  \/ payments'[i].status = payments[i].status
                      \/ payments[i].status = "PAID" /\ payments'[i].status = "REFUNDED"
    OBVIOUS
  <2>1. CASE [Next]_vars
    BY <2>1, StatusSteps DEF MarketIInv, IInv, IsForward
  <2>2. CASE OthersStep
    BY <2>2 DEF OthersStep
  <2> QED
    BY <2>1, <2>2, MarketCases DEF MarketIInv
<1> QED
  BY <1>1, MarketInitIInv, MarketStepIInv, InitRequest, MarketStepRequest, PTL
     DEF MarketSpec, TerminalIsFinal

\* No charge is made for a target that has a PAID payment, with the other
\* components' requests in between the guard and the charge.
THEOREM MarketNoChargeOnceSettled ==
  ASSUME OneRequest
  PROVE  MarketSpec => NoChargeOnceSettled
<1> DEFINE Unpaid ==
      \A c \in DOMAIN charges' \ DOMAIN charges : ~HasPaidRow(charges'[c].target)
<1>1. MarketIInv /\ UnpaidTarget /\ [MarketNext]_marketVars => [Unpaid]_vars
  <2> SUFFICES ASSUME MarketIInv, UnpaidTarget, [MarketNext]_marketVars,
                      NEW c \in DOMAIN charges' \ DOMAIN charges
               PROVE  ~HasPaidRow(charges'[c].target)
    OBVIOUS
  <2>1. [Next]_vars
    BY MarketCases DEF MarketIInv, OthersStep
  <2> QED
    BY <2>1, ChargeSteps DEF MarketIInv, IInv, UnpaidTarget
<1> QED
  BY <1>1, MarketInitIInv, MarketStepIInv, InitRequest, MarketStepRequest, PTL
     DEF MarketSpec, NoChargeOnceSettled

\* A deleted visit's PIX charges have no target any more, so none is handed out.
LEMMA OthersPix ==
  ASSUME IInv, PixInv, OthersStep
  PROVE  PixInv'
<1>1. ASSUME NEW i \in DOMAIN payments', NEW target, target # NoTarget,
             Reusable(payments'[i], target)
      PROVE  /\ i \in DOMAIN payments
             /\ payments[i].target = payments'[i].target
             /\ Reusable(payments[i], target)
  BY <1>1 DEF OthersStep, Reusable
<1>2. OneReusablePix'
  BY <1>1 DEF PixInv, OneReusablePix, Reusable
<1>3. PixDecided'
  BY DEF PixInv, PixDecided, OthersStep
<1>4. \A target : NoneReusable(target) => NoneReusable(target)'
  BY <1>1 DEF NoneReusable, Reusable
<1>5. ASSUME NEW h \in Handlers PROVE PixClaims(handlers[h])'
  <2>1. /\ handlers'[h] = handlers[h] /\ UNCHANGED charges
        /\ PixClaims(handlers[h])
    BY DEF OthersStep, PixInv
  <2>2. handlers[h].pc = "update" => handlers[h].payment \in DOMAIN payments
    BY DEF IInv, RequestsBacked, RequestBacked
  <2> QED
    BY <1>4, <2>1, <2>2 DEF PixClaims, OthersStep
<1> QED
  BY <1>2, <1>3, <1>5 DEF PixInv

\* A target never has two PIX charges to hand out, though visits are deleted
\* between the query for one and the insert of another.
THEOREM MarketOneReusablePix ==
  ASSUME OneRequest, PendingIsFirst
  PROVE  MarketSpec => []OneReusablePix
<1>1. MarketInit => PixInv
  BY DEF MarketInit, PixInv, OneReusablePix, PixDecided, PixClaims, Idle
<1>2. MarketIInv /\ ReadIsCurrent /\ PixInv /\ [MarketNext]_marketVars => PixInv'
  BY MarketCases, StepPix, OthersPix DEF MarketIInv
<1>3. PixInv => OneReusablePix
  BY DEF PixInv
<1> QED
  BY <1>1, <1>2, <1>3, MarketInitIInv, MarketStepIInv, InitRequest, MarketStepRequest,
     PTL DEF MarketSpec

\* A PAID payment of a visit that stays stays PAID, but for a refund.
LEMMA PaidRowStands ==
  ASSUME MarketIInv, MarketIInv', ReadIsCurrent, [MarketNext]_marketVars,
         NEW s \in ScheduleIds, schedules'[s] # "DELETED", HasPaidRow(s)
  PROVE  HasPaidRow(s)' \/ TakenBack(s)'
<1>t. TypeOK /\ MarketTypeOK
  BY DEF MarketIInv, IInv
<1>1. PICK i \in DOMAIN payments :
        payments[i].target = s /\ payments[i].status = "PAID"
  BY DEF HasPaidRow
<1>2. CASE [Next]_vars
  <2>1. /\ i \in DOMAIN payments'
        /\ payments'[i].target = s
        /\ payments'[i].status \in {"PAID", "REFUNDED"}
    BY <1>t, <1>1, <1>2, StatusSteps DEF IsForward, Terminal
  <2>2. CASE payments'[i].status = "REFUNDED"
    <3>1. s # NoTarget
      BY SchemaAssumption
    <3>2. RowBacked(payments[i])'
      BY <2>1 DEF MarketIInv, IInv, NoInventedStatus
    <3>3. PICK c \in DOMAIN charges' : charges'[c].target = s /\ "REFUNDED" \in Reported(c)'
      BY <2>1, <2>2, <3>1, <3>2 DEF RowBacked
    <3> QED
      BY <3>3, MeansFacts DEF Reported, TakenBack
  <2> QED
    BY <2>1, <2>2 DEF HasPaidRow
<1>3. ASSUME NEW v \in VisitRequests, S!DeleteSchedule(v) PROVE HasPaidRow(s)'
  <2>1. s # visits[v].schedule
    <3>1. schedules \in [ScheduleIds -> ScheduleStatus \cup {"NONE", "DELETED"}]
      BY <1>t DEF TypeOK, TablesTypeOK
    <3> QED
      BY <1>3, <3>1 DEF S!DeleteSchedule
  <2> QED
    BY <1>t, <1>1, <1>3, <2>1, DeleteFacts DEF HasPaidRow
<1>4. CASE UNCHANGED payments
  BY <1>4 DEF HasPaidRow
<1>5. CASE B!RequestsNext
  BY <1>4, <1>5, BudgetCases, BudgetLooksOnly DEF B!InsertBudget, B!WriteAnswer
<1>6. CASE S!VisitsNext
  BY <1>3, <1>4, <1>6, VisitCases, VisitLooksOnly
     DEF S!CreateJob, S!CreateSchedule, S!UpdateSchedule, S!DeleteJob
<1> QED
  BY <1>2, <1>4, <1>5, <1>6 DEF MarketNext, marketVars, vars, tables

\* A visit gets committed when its fee is found PAID.
LEMMA CommittedSteps ==
  ASSUME MarketIInv, AnsweredFirst, HasParents, HasParents', [MarketNext]_marketVars,
         NEW s \in ScheduleIds, Committed(s)'
  PROVE  /\ schedules'[s] # "DELETED"
         /\ Committed(s) \/ HasPaidRow(s)
<1>t. /\ MarketTypeOK /\ IInv
      /\ schedules \in [ScheduleIds -> ScheduleStatus \cup {"NONE", "DELETED"}]
  BY DEF MarketIInv, IInv, TypeOK, TablesTypeOK
<1>1. ASSUME NEW b \in BudgetIds, budgets'[b].status # "NONE", budgets'[b].schedule = s
      PROVE  schedules'[s] # "DELETED" /\ Committed(s)
  <2>1. schedules'[s] # "DELETED"
    BY <1>1 DEF HasParents, NoOrphans, S!Exists, S!ScheduleStatus
  <2>2. CASE budgets[b].status # "NONE" /\ budgets[b].schedule = s
    BY <2>1, <2>2 DEF Committed, B!BudgetsOf
  <2>3. CASE \E r \in BudgetRequests :
               /\ requests[r].pc = "insert"
               /\ schedules[s] # "DELETED"
               /\ requests[r].schedule = s
    BY <2>1, <2>3 DEF Committed
  <2>4. ASSUME NEW h \in Handlers, handlers[h].pc = "settle", handlers[h].budget = b
        PROVE  budgets[b].status # "NONE"
    BY <1>t, <2>4, SettlingCharged DEF AnsweredFirst, AnsweredBudgets
  <2> QED
    BY <1>1, <1>t, <2>2, <2>3, <2>4, BudgetSteps DEF Becomes
<1>2. ASSUME NEW r \in BudgetRequests, schedules'[s] # "DELETED",
             requests'[r].pc \in {"checkActive", "insert"}, requests'[r].schedule = s
      PROVE  Committed(s) \/ HasPaidRow(s)
  <2>1. schedules[s] # "DELETED"
    BY <1>t, <1>2, ScheduleSteps DEF S!Exists, S!ScheduleStatus
  <2>2. CASE requests[r].pc \in {"checkActive", "insert"} /\ requests[r].schedule = s
    BY <2>1, <2>2 DEF Committed
  <2>3. CASE HasPaidRow(s)
    BY <2>3
  <2> QED
    BY <1>t, <1>2, <2>2, <2>3, RequestSteps
<1> QED
  BY <1>1, <1>2 DEF Committed, B!BudgetsOf

LEMMA InitFeeStands == MarketInit => FeeStands
<1> SUFFICES ASSUME MarketInit PROVE FeeStands
  OBVIOUS
<1>1. \A s \in ScheduleIds : ~Committed(s)
  BY DEF MarketInit, B!RequestsInit, B!Idle, Committed, B!BudgetsOf
<1> QED
  BY <1>1 DEF FeeStands

LEMMA StepFeeStands ==
  /\ MarketIInv /\ MarketIInv'
  /\ AnsweredFirst
  /\ HasParents /\ HasParents'
  /\ ReadIsCurrent
  /\ FeeStands
  /\ [MarketNext]_marketVars
  => FeeStands'
<1> SUFFICES ASSUME MarketIInv, MarketIInv', AnsweredFirst, HasParents, HasParents',
                    ReadIsCurrent, FeeStands, [MarketNext]_marketVars,
                    NEW s \in ScheduleIds, Committed(s)'
             PROVE  HasPaidRow(s)' \/ TakenBack(s)'
  BY DEF FeeStands
<1>1. TakenBack(s) => TakenBack(s)'
  <2>1. Grows
    BY MarketGrows
  <2> QED
    BY <2>1 DEF Grows, TakenBack
<1>2. schedules'[s] # "DELETED" /\ (HasPaidRow(s) \/ TakenBack(s))
  BY CommittedSteps DEF FeeStands
<1> QED
  BY <1>1, <1>2, PaidRowStands

\* Nobody is charged a visit fee once the visit has a budget, unless the fee was
\* refunded or charged back: one payment request at a time, cut off anywhere,
\* any number of requests on budgets, visits and jobs.
THEOREM LateFeeOnlyIfTakenBackCorrect ==
  ASSUME OneRequest
  PROVE  MarketSpec => LateFeeOnlyIfTakenBack
<1> DEFINE Before ==
      \A c \in DOMAIN charges' \ DOMAIN charges :
        LET target == charges'[c].target IN
          target \in ScheduleIds => B!BudgetsOf(target) = {} \/ TakenBack(target)
<1>1. MarketIInv /\ UnpaidTarget /\ FeeStands /\ [MarketNext]_marketVars
        => [Before]_marketVars
  <2> SUFFICES ASSUME MarketIInv, UnpaidTarget, FeeStands, [MarketNext]_marketVars,
                      NEW c \in DOMAIN charges' \ DOMAIN charges,
                      NEW target \in ScheduleIds, charges'[c].target = target,
                      B!BudgetsOf(target) # {}
               PROVE  TakenBack(target)
    OBVIOUS
  <2>1. [Next]_vars
    BY MarketCases DEF MarketIInv, OthersStep
  <2>2. ~HasPaidRow(target)
    BY <2>1, ChargeSteps DEF MarketIInv, IInv, UnpaidTarget
  <2> QED
    BY <2>2 DEF FeeStands, Committed
<1> QED
  BY <1>1, MarketInitIInv, MarketStepIInv, InitAnswered, StepAnswered, InitParents,
     StepParents, InitRequest, InitFeeStands, MarketStepRequest, StepFeeStands, PTL
     DEF MarketSpec, LateFeeOnlyIfTakenBack
=============================================================================
