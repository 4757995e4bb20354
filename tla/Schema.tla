------------------------------- MODULE Schema -------------------------------
(***************************************************************************)
(* The tables of prisma/schema.prisma that the services share, cut down to *)
(* the columns that decide what a handler does.  A component's module      *)
(* EXTENDS this one and adds the state of its own handlers.                *)
(*                                                                         *)
(* The ids of budgets and schedules are constants; a row that has not been *)
(* created yet has status "NONE".  Payment ids are issued in order, so the *)
(* payments table is a sequence: the id of a row is its index and a larger *)
(* index means a later createdAt.                                          *)
(***************************************************************************)
EXTENDS Naturals, Sequences, FiniteSets

CONSTANTS
  Users,        \* registered users
  ScheduleIds,  \* ids of the schedules (visits) of a run
  BudgetIds,    \* ids of the budgets of a run
  Requester,    \* Schedule.requesterId: the client, never updated
  JobOwner,     \* Schedule.job.userId: the provider, never updated
  TypeOf,       \* Budget.type, never updated
  NoTarget      \* a payment whose schedule was deleted (ON DELETE SET NULL)

BudgetType == {"ONE_TIME", "RECURRING"}

ASSUME SchemaAssumption ==
  /\ BudgetIds \cap ScheduleIds = {}
  /\ NoTarget \notin BudgetIds \cup ScheduleIds
  /\ Requester \in [ScheduleIds -> Users]
  /\ JobOwner \in [ScheduleIds -> Users]
  /\ TypeOf \in [BudgetIds -> BudgetType]

VARIABLES
  schedules,    \* the status of each schedule
  budgets,      \* the status and the schedule of each budget
  payments      \* the payments, in the order of their ids

ScheduleStatus == {"PENDING", "ACCEPTED", "REJECTED"}
BudgetStatus == {"DRAFT", "SENT", "ACCEPTED", "REJECTED", "PAID", "CANCELED"}
PaymentMethod == {"PIX", "CREDIT_CARD"}
PaymentKind == {"ONE_TIME", "SUBSCRIPTION"}
PaymentStatus ==
  {"PENDING", "PROCESSING", "PAID", "FAILED", "CANCELED", "REFUNDED"}

\* What can be paid for.  The purpose column is BUDGET exactly when the
\* target is a budget, and budgets are never deleted, so it needs no field.
Targets == BudgetIds \cup ScheduleIds

\* A budget copies client and worker from its schedule, whose requester and
\* job owner never change, so both are read off the schedule.
BudgetRow == [status : BudgetStatus \cup {"NONE"}, schedule : ScheduleIds]

\* charge is providerPaymentId: the number the provider issued, or 0 for the
\* mp_declined_<uuid> that no charge of the provider has.
\* pixValid is pixExpiresAt > now().
PaymentRow ==
  [target : Targets \cup {NoTarget}, method : PaymentMethod,
   kind : PaymentKind, status : PaymentStatus, charge : Nat,
   pixValid : BOOLEAN]

Client(b) == Requester[budgets[b].schedule]
Worker(b) == JobOwner[budgets[b].schedule]

\* A settled payment of the target exists.
HasPaidRow(target) ==
  \E i \in DOMAIN payments :
    payments[i].target = target /\ payments[i].status = "PAID"

TablesTypeOK ==
  /\ schedules \in [ScheduleIds -> ScheduleStatus \cup {"NONE", "DELETED"}]
  /\ budgets \in [BudgetIds -> BudgetRow]
  /\ payments \in Seq(PaymentRow)
=============================================================================
