------------------------------ MODULE Schedules ------------------------------
(***************************************************************************)
(* schedules/schedules.service.ts and jobs/jobs.service.ts: visits are     *)
(* requested, updated and deleted, jobs are offered, edited and withdrawn. *)
(* update and remove look the row up, answer 404 without one, and write in *)
(* a second query on the id alone.                                         *)
(*                                                                         *)
(* The database does its part: Schedule.jobId and Budget.scheduleId are ON *)
(* DELETE RESTRICT, Payment.scheduleId is ON DELETE SET NULL.              *)
(***************************************************************************)
EXTENDS Schema

CONSTANTS
  JobIds,         \* ids of the jobs of a run
  JobOf,          \* Schedule.jobId, never updated
  VisitRequests   \* the schedule and job requests that may be in progress

VARIABLES
  jobs,           \* NONE, LIVE or DELETED, by job
  visits          \* the requests on schedules and jobs in progress

Idle == [pc |-> "idle"]

\* status is "same" in an update that leaves the column alone.
Updating ==
  [pc : {"update"}, schedule : ScheduleIds, status : ScheduleStatus \cup {"same"}]
Removing == [pc : {"remove"}, schedule : ScheduleIds]
OnJob == [pc : {"edit", "withdraw"}, job : JobIds]

\* Jobs, schedules and the requests on them have their types.
VisitsTypeOK ==
  /\ jobs \in [JobIds -> {"NONE", "LIVE", "DELETED"}]
  /\ visits \in
       [VisitRequests -> {Idle} \cup Updating \cup Removing \cup OnJob]

VisitsInit ==
  /\ jobs = [j \in JobIds |-> "NONE"]
  /\ schedules = [s \in ScheduleIds |-> "NONE"]
  /\ visits = [v \in VisitRequests |-> Idle]

Exists(s) == schedules[s] \in ScheduleStatus

-----------------------------------------------------------------------------
(* What the app is told about a visit: withBudget.                         *)

VisitRows(s) == {i \in DOMAIN payments : payments[i].target = s}

\* visitPaid looks at the latest visit fee payment, the only one
\* scheduleInclude fetches.
VisitPaid(s) ==
  \E i \in VisitRows(s) :
    /\ \A j \in VisitRows(s) : j <= i
    /\ payments[i].status = "PAID"

-----------------------------------------------------------------------------
\* JobsService.create.
CreateJob(j) ==
  /\ jobs[j] = "NONE"
  /\ jobs' = [jobs EXCEPT ![j] = "LIVE"]
  /\ UNCHANGED <<schedules, budgets, payments, visits>>

\* create: PENDING by default; the job's foreign key.
CreateSchedule(s) ==
  /\ schedules[s] = "NONE"
  /\ jobs[JobOf[s]] = "LIVE"
  /\ schedules' = [schedules EXCEPT ![s] = "PENDING"]
  /\ UNCHANGED <<jobs, budgets, payments, visits>>

\* The findById of update and remove, here and in JobsService.
FindToUpdate(v, s, status) ==
  /\ visits[v] = Idle
  /\ Exists(s)
  /\ visits' = [visits EXCEPT ![v] =
       [pc |-> "update", schedule |-> s, status |-> status]]
  /\ UNCHANGED <<jobs, schedules, budgets, payments>>

FindToRemove(v, s) ==
  /\ visits[v] = Idle
  /\ Exists(s)
  /\ visits' = [visits EXCEPT ![v] = [pc |-> "remove", schedule |-> s]]
  /\ UNCHANGED <<jobs, schedules, budgets, payments>>

FindJob(v, j, pc) ==
  /\ visits[v] = Idle
  /\ jobs[j] = "LIVE"
  /\ visits' = [visits EXCEPT ![v] = [pc |-> pc, job |-> j]]
  /\ UNCHANGED <<jobs, schedules, budgets, payments>>

\* Mutant: an absent status is written like any other.
UpdateScheduleBlindly(v) ==
  /\ visits[v].pc = "update"
  /\ Exists(visits[v].schedule)
  /\ schedules' = [schedules EXCEPT ![visits[v].schedule] = visits[v].status]
  /\ visits' = [visits EXCEPT ![v] = Idle]
  /\ UNCHANGED <<jobs, budgets, payments>>

\* schedule.update: any status after any other.
UpdateSchedule(v) ==
  /\ visits[v].pc = "update"
  /\ Exists(visits[v].schedule)
  /\ schedules' = [schedules EXCEPT ![visits[v].schedule] =
       IF visits[v].status = "same" THEN @ ELSE visits[v].status]
  /\ visits' = [visits EXCEPT ![v] = Idle]
  /\ UNCHANGED <<jobs, budgets, payments>>

\* schedule.delete, refused while a budget refers to it; its payments lose
\* their target.
DeleteSchedule(v) ==
  /\ visits[v].pc = "remove"
  /\ LET s == visits[v].schedule IN
       /\ Exists(s)
       /\ \A b \in BudgetIds : budgets[b].status # "NONE" => budgets[b].schedule # s
       /\ schedules' = [schedules EXCEPT ![s] = "DELETED"]
       /\ payments' = [i \in DOMAIN payments |->
            IF payments[i].target = s THEN [payments[i] EXCEPT !.target = NoTarget]
            ELSE payments[i]]
  /\ visits' = [visits EXCEPT ![v] = Idle]
  /\ UNCHANGED <<jobs, budgets>>

\* job.update: no handler reads the columns it writes.
UpdateJob(v) ==
  /\ visits[v].pc = "edit"
  /\ jobs[visits[v].job] = "LIVE"
  /\ visits' = [visits EXCEPT ![v] = Idle]
  /\ UNCHANGED <<jobs, schedules, budgets, payments>>

\* job.delete, refused while a schedule refers to it.
DeleteJob(v) ==
  /\ visits[v].pc = "withdraw"
  /\ jobs[visits[v].job] = "LIVE"
  /\ \A s \in ScheduleIds : Exists(s) => JobOf[s] # visits[v].job
  /\ jobs' = [jobs EXCEPT ![visits[v].job] = "DELETED"]
  /\ visits' = [visits EXCEPT ![v] = Idle]
  /\ UNCHANGED <<schedules, budgets, payments>>

\* The request is cut off, or its write is refused: nothing was written yet.
GiveUp(v) ==
  /\ visits[v] # Idle
  /\ visits' = [visits EXCEPT ![v] = Idle]
  /\ UNCHANGED <<jobs, schedules, budgets, payments>>

VisitsNext ==
  \/ \E j \in JobIds : CreateJob(j)
  \/ \E s \in ScheduleIds : CreateSchedule(s)
  \/ \E v \in VisitRequests :
       \/ \E s \in ScheduleIds :
            \/ \E status \in ScheduleStatus \cup {"same"} : FindToUpdate(v, s, status)
            \/ FindToRemove(v, s)
       \/ \E j \in JobIds, pc \in {"edit", "withdraw"} : FindJob(v, j, pc)
       \/ UpdateSchedule(v)
       \/ DeleteSchedule(v)
       \/ UpdateJob(v)
       \/ DeleteJob(v)
       \/ GiveUp(v)
=============================================================================
