------------------------------- MODULE Budgets -------------------------------
(***************************************************************************)
(* budgets/budgets.service.ts: the provider sends a budget for an accepted *)
(* visit whose fee is paid, and the client accepts or rejects it.          *)
(*                                                                         *)
(* Both handlers check the tables they read over several awaits and then   *)
(* write without a condition, so a request keeps its place (pc) and what   *)
(* it decided.  Schedules and payments are other components' tables.       *)
(***************************************************************************)
EXTENDS Schema

CONSTANT BudgetRequests   \* the budget requests that may be in progress

VARIABLE requests

Idle == [pc |-> "idle"]

Creating == [pc : {"checkVisit", "checkActive", "insert"}, schedule : ScheduleIds]
Answer == {"ACCEPTED", "REJECTED"}
Answering == [pc : {"answer"}, budget : BudgetIds, status : Answer]

\* The budget requests have their types, and answer budgets that exist.
RequestsTypeOK ==
  /\ requests \in [BudgetRequests -> {Idle} \cup Creating \cup Answering]
  /\ \A r \in BudgetRequests : requests[r].pc = "answer" =>
       budgets[requests[r].budget].status # "NONE"

RequestsInit == requests = [r \in BudgetRequests |-> Idle]

\* ACTIVE_BUDGET_STATUSES.
ActiveStatus == {"DRAFT", "SENT", "ACCEPTED", "PAID"}

BudgetsOf(s) ==
  {b \in BudgetIds : budgets[b].status # "NONE" /\ budgets[b].schedule = s}

\* findBySchedule, and budgets of scheduleInclude: the latest budget.
IsShown(b, s) == b \in BudgetsOf(s) /\ \A later \in BudgetsOf(s) : later <= b

ShownStatus(s) ==
  IF BudgetsOf(s) = {} THEN "NONE"
  ELSE budgets[CHOOSE b \in BudgetIds : IsShown(b, s)].status

IsActive(b, s) == budgets[b].schedule = s /\ budgets[b].status \in ActiveStatus

-----------------------------------------------------------------------------
(* create.                                                                 *)

\* The schedule is ACCEPTED and the caller provides its job.
ReadSchedule(r, s, u) ==
  /\ requests[r] = Idle
  /\ u = JobOwner[s]
  /\ schedules[s] = "ACCEPTED"
  /\ requests' = [requests EXCEPT ![r] = [pc |-> "checkVisit", schedule |-> s]]
  /\ UNCHANGED <<schedules, budgets, payments>>

\* Mutant: the visit fee is not asked for.
CheckNoFee(r) ==
  /\ requests[r].pc = "checkVisit"
  /\ requests' = [requests EXCEPT ![r].pc = "checkActive"]
  /\ UNCHANGED <<schedules, budgets, payments>>

\* findFirst of a PAID visit fee of the schedule.
CheckVisitFee(r) ==
  /\ requests[r].pc = "checkVisit"
  /\ requests' = [requests EXCEPT ![r] =
       IF HasPaidRow(requests[r].schedule)
         THEN [pc |-> "checkActive", schedule |-> requests[r].schedule]
         ELSE Idle]
  /\ UNCHANGED <<schedules, budgets, payments>>

\* Mutant: ACTIVE_BUDGET_STATUSES without SENT.
CheckAnsweredBudget(r) ==
  /\ requests[r].pc = "checkActive"
  /\ requests' = [requests EXCEPT ![r] =
       IF \E b \in BudgetIds : IsActive(b, requests[r].schedule) /\ budgets[b].status # "SENT"
         THEN Idle
         ELSE [pc |-> "insert", schedule |-> requests[r].schedule]]
  /\ UNCHANGED <<schedules, budgets, payments>>

\* findFirst of an active budget of the schedule.
CheckActiveBudget(r) ==
  /\ requests[r].pc = "checkActive"
  /\ requests' = [requests EXCEPT ![r] =
       IF \E b \in BudgetIds : IsActive(b, requests[r].schedule)
         THEN Idle
         ELSE [pc |-> "insert", schedule |-> requests[r].schedule]]
  /\ UNCHANGED <<schedules, budgets, payments>>

\* Ids are issued in order, so a larger one means a later createdAt.
IsNextId(b) ==
  /\ budgets[b].status = "NONE"
  /\ \A earlier \in BudgetIds : earlier < b => budgets[earlier].status # "NONE"

\* Mutant: no foreign key from a budget to its schedule.
InsertOrphanBudget(r, b) ==
  /\ requests[r].pc = "insert"
  /\ IsNextId(b)
  /\ budgets' = [budgets EXCEPT ![b] =
       [status |-> "SENT", schedule |-> requests[r].schedule]]
  /\ requests' = [requests EXCEPT ![r] = Idle]
  /\ UNCHANGED <<schedules, payments>>

\* budget.create, whatever changed since the checks, but for the schedule's
\* foreign key.
InsertBudget(r, b) ==
  /\ requests[r].pc = "insert"
  /\ schedules[requests[r].schedule] # "DELETED"
  /\ IsNextId(b)
  /\ budgets' = [budgets EXCEPT ![b] =
       [status |-> "SENT", schedule |-> requests[r].schedule]]
  /\ requests' = [requests EXCEPT ![r] = Idle]
  /\ UNCHANGED <<schedules, payments>>

-----------------------------------------------------------------------------
(* respond.                                                                *)

\* Mutant: any budget can be answered.
ReadAnyBudget(r, b, u, status) ==
  /\ requests[r] = Idle
  /\ u = Client(b)
  /\ budgets[b].status # "NONE"
  /\ requests' = [requests EXCEPT ![r] =
       [pc |-> "answer", budget |-> b, status |-> status]]
  /\ UNCHANGED <<schedules, budgets, payments>>

\* The budget is SENT and the caller is its client.
ReadBudget(r, b, u, status) ==
  /\ requests[r] = Idle
  /\ u = Client(b)
  /\ budgets[b].status = "SENT"
  /\ requests' = [requests EXCEPT ![r] =
       [pc |-> "answer", budget |-> b, status |-> status]]
  /\ UNCHANGED <<schedules, budgets, payments>>

\* budget.update on the id alone.
WriteAnswer(r) ==
  /\ requests[r].pc = "answer"
  /\ budgets' = [budgets EXCEPT ![requests[r].budget].status = requests[r].status]
  /\ requests' = [requests EXCEPT ![r] = Idle]
  /\ UNCHANGED <<schedules, payments>>

\* The request is cut off, or its write is refused: nothing was written yet.
GiveUp(r) ==
  /\ requests[r] # Idle
  /\ requests' = [requests EXCEPT ![r] = Idle]
  /\ UNCHANGED <<schedules, budgets, payments>>

RequestsNext ==
  \E r \in BudgetRequests :
    \/ \E s \in ScheduleIds, u \in Users : ReadSchedule(r, s, u)
    \/ CheckVisitFee(r)
    \/ CheckActiveBudget(r)
    \/ \E b \in BudgetIds : InsertBudget(r, b)
    \/ \E b \in BudgetIds, u \in Users, status \in Answer : ReadBudget(r, b, u, status)
    \/ WriteAnswer(r)
    \/ GiveUp(r)
=============================================================================
