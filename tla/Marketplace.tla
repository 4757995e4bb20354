----------------------------- MODULE Marketplace -----------------------------
(***************************************************************************)
(* The whole API over one database: payments, budgets, schedules and jobs, *)
(* each component's requests interleaved with the others'.  The module     *)
(* extends Payments, so that what is proved of a step of Payments can be   *)
(* used of the same step here, and names the composed system Market....    *)
(***************************************************************************)
EXTENDS Payments

CONSTANTS
  BudgetRequests,                \* of Budgets
  JobIds, JobOf, VisitRequests   \* of Schedules

ASSUME MarketplaceAssumption ==
  /\ JobOf \in [ScheduleIds -> JobIds]
  /\ BudgetIds \subseteq Nat

VARIABLES requests, jobs, visits

B == INSTANCE Budgets
S == INSTANCE Schedules

marketVars ==
  <<schedules, budgets, payments, charges, notices, handlers, requests, jobs, visits>>

\* Nothing is stored yet.  A budget row that does not exist has some schedule.
\* OpenVisits is of Payments alone: visits are accepted one by one here.
MarketInit ==
  /\ S!VisitsInit
  /\ B!RequestsInit
  /\ budgets \in [BudgetIds -> [status : {"NONE"}, schedule : ScheduleIds]]
  /\ payments = <<>>
  /\ charges = <<>>
  /\ notices = {}
  /\ handlers = [h \in Handlers |-> Idle]

MarketNext ==
  \/ Next /\ UNCHANGED <<requests, jobs, visits>>
  \/ B!RequestsNext /\ UNCHANGED <<charges, notices, handlers, jobs, visits>>
  \/ S!VisitsNext /\ UNCHANGED <<charges, notices, handlers, requests>>

MarketSpec == MarketInit /\ [][MarketNext]_marketVars

-----------------------------------------------------------------------------
(* Properties.                                                             *)

\* Every component's variables have their types, in the composed system too.
MarketTypeOK == TypeOK /\ B!RequestsTypeOK /\ S!VisitsTypeOK

\* No budget without its visit's money: whatever happened to the payment, the
\* schedule or the requests in between, the provider has approved a charge
\* made for the visit of every budget (BudgetsService.create).
VisitFeeFirst ==
  \A b \in BudgetIds :
    budgets[b].status # "NONE" => Approved(budgets[b].schedule)

\* A budget's visit is there, and a visit's job is: no request between a
\* lookup and a write of another leaves a row without its parent.
NoOrphans ==
  /\ \A b \in BudgetIds :
       budgets[b].status # "NONE" => S!Exists(budgets[b].schedule)
  /\ \A s \in ScheduleIds : S!Exists(s) => jobs[JobOf[s]] = "LIVE"

\* Money is asked for a budget only after its client answered it
\* (createCheckout), and no request makes it unanswered again.
ChargedOnlyIfAnswered ==
  \A c \in DOMAIN charges :
    charges[c].target \in BudgetIds =>
      budgets[charges[c].target].status \in {"ACCEPTED", "REJECTED", "PAID"}

\* ACTIVE_BUDGET_STATUSES: another budget cannot be created for a schedule
\* while one of these exists.
OneActiveBudget ==
  \A b1, b2 \in BudgetIds :
    b1 # b2 /\ B!IsActive(b1, budgets[b1].schedule)
            /\ B!IsActive(b2, budgets[b2].schedule)
    => budgets[b1].schedule # budgets[b2].schedule

\* While a visit has an active budget, that is the one the app shows, and so
\* the one the client can answer and pay: the latest by createdAt.
ShownIsActive ==
  \A b \in BudgetIds :
    B!IsActive(b, budgets[b].schedule) => B!IsShown(b, budgets[b].schedule)

\* A charge for the target has been refunded or charged back: what STATUS_MAP
\* turns into REFUNDED.
TakenBack(target) ==
  \E c \in DOMAIN charges :
    /\ charges[c].target = target
    /\ {"refunded", "charged_back"} \cap charges[c].seen # {}

\* createVisitCheckout: the fee is charged "before any budget".
FeeChargedBeforeBudget ==
  [][\A c \in DOMAIN charges' \ DOMAIN charges :
       LET target == charges'[c].target IN
         target \in ScheduleIds => B!BudgetsOf(target) = {}]_marketVars

\* A fee is charged for a visit that has a budget only when the earlier one was
\* taken back.  No guard of createVisitCheckout asks for budgets: it takes the
\* chain from a budget's PAID fee to the checkout that is refused for it.
LateFeeOnlyIfTakenBack ==
  [][\A c \in DOMAIN charges' \ DOMAIN charges :
       LET target == charges'[c].target IN
         target \in ScheduleIds =>
           B!BudgetsOf(target) = {} \/ TakenBack(target)]_marketVars

\* The flow implements Deal when requests of a component do not overlap: what
\* the app shows of a visit, and the money behind it, go the promised way.
D ==
  INSTANCE Deal WITH
    Visits <- ScheduleIds,
    fees   <- {s \in ScheduleIds : Approved(s)},
    offers <- [s \in ScheduleIds |-> B!ShownStatus(s)],
    prices <- {s \in ScheduleIds : \E b \in BudgetIds : B!IsShown(b, s) /\ Approved(b)}

KeepsDeal == D!Spec

\* respond: only a budget that is still SENT is answered, so an answer stands
\* until the budget is paid.
AnswerStands ==
  [][\A b \in BudgetIds :
       budgets[b].status \notin {"NONE", "SENT"} =>
         budgets'[b].status \in {budgets[b].status, "PAID"}]_marketVars

\* visitPaid tells whether the visit fee has been paid.
VisitPaidAgrees ==
  \A s \in ScheduleIds : S!Exists(s) => (S!VisitPaid(s) <=> HasPaidRow(s))
=============================================================================
